---- MODULE Spec2Model ----
(***************************************************************************)
(* Verification model of lume-epics' server side.                          *)
(*                                                                         *)
(* Two server variants live in the repository and both are modelled:       *)
(*                                                                         *)
(*  - the thread-based Server of lume_epics/epics_server.py: a comm        *)
(*    thread (the execution coordinator), a Channel Access thread and a    *)
(*    pvAccess thread in one process, joined by the module level           *)
(*    comm_queue, pva_queue and ca_queue (specification Spec);             *)
(*                                                                         *)
(*  - the process-based adapters CAServer / PVAServer of                   *)
(*    lume_epics/epics_ca_server.py and lume_epics/epics_pva_server.py,    *)
(*    which talk to a coordinator through in_queue, their out_queue and    *)
(*    the shared running indicator (specification SpecP).                  *)
(*                                                                         *)
(* Values are small integers; None is the Python None.  The model          *)
(* evaluated by the server is the repository's test model: every output is *)
(* twice one input (tests/launch_server.py, tests/test_server.py).         *)
(***************************************************************************)
EXTENDS Integers, Sequences, FiniteSets, TLC

\* ------------------------------------------------------------------ bounds
\* Number of client write requests considered (Channel Access and pvAccess).
MaxWrites == 2

\* Number of client write requests considered where an outbound queue of
\* the thread-based Server is to fill up (specification SpecQ).
MaxWritesQ == 11
\* Client writes in the runs that overflow comm_queue while the comm thread
\* holds a message (specification SpecO): one held, CommQueueMax queued, one
\* more.
MaxWritesO == 7

\* Messages considered at a time in a queue between processes (in_queue and
\* the out queues are unbounded multiprocessing queues).
MaxPQueue == 3

\* ------------------------------------------------------- program constants
CommQueueMax == 5
PvaQueueMax == 10
CaQueueMax == 10

\* Python's None (variable.value before the first assignment), distinct
\* from every number a variable may hold.
None == -1

\* --------------------------------------------------- declared variables
\* The declaration used throughout: input "x" (default 1), constant input
\* "k" (default 2, is_constant = True), outputs "y" = 2 * x and "z" = 2 * k.
Inputs == {"x", "k"}
Outputs == {"y", "z"}
Names == Inputs \cup Outputs
Protocols == {"ca", "pva"}

is_constant == [v \in Inputs |-> v = "k"]
default == [v \in Inputs |-> IF v = "x" THEN 1 ELSE 2]
Constants == {v \in Inputs : is_constant[v]}

\* Values a client may write (all differ from the defaults).
WriteValues == {3, 4}

\* Order in which evaluate returns the output variables.
OutputOrder == <<"y", "z">>
\* The input each output of the test model is computed from.
InputOf == [o \in Outputs |-> IF o = "y" THEN "x" ELSE "k"]

VARIABLES
    \* ---- thread-based Server (epics_server.py)
    srvPc,            \* "declared" -> "constructed" -> "started", then
                      \* "stopped" / "stop_raised" once stop() was called
    input_variables,  \* name -> value of the shared input variable objects
    output_variables, \* name -> [value, cycle] of the shared output objects
    comm_queue,       \* inbound queue, messages {protocol, pvname, value}
    pva_queue,        \* outbound queue of the pvAccess thread
    ca_queue,         \* outbound queue of the Channel Access thread
    commPc,           \* position of run_comm_thread
    data,             \* the message run_comm_thread holds
    predicted_output, \* the event run_comm_thread is publishing
    adPc,             \* protocol -> position of run_ca_server / run_pva_server
    adData,           \* protocol -> event the adapter is publishing
    adIdx,            \* protocol -> index of the next variable to publish
    adRead,           \* protocol -> output name -> cycle stamp last published
    served,           \* protocol -> name -> value served to clients
    exit_event,       \* Server.exit_event is set
    nWrites,          \* client write requests so far
    nDeq,             \* messages run_comm_thread has dequeued
    nEval,            \* evaluate calls made by run_comm_thread
    evaluated,        \* evaluate has been called (constructor included)
    lastEvalIn,       \* the input values of the last evaluate call
    evalRaised,       \* evaluate raised in run_comm_thread
    \* ---- process-based adapters (epics_ca_server.py, epics_pva_server.py)
    in_queue,          \* shared inbound queue of the coordinator
    out_queue,         \* protocol -> outbound queue of that adapter
    running_indicator, \* the shared "model is running" flag
    cached_values,     \* protocol -> _cached_values of the adapter
    p_input_variables, \* protocol -> the adapter's copy of the input values
    p_served,          \* protocol -> name -> value served to clients
    pPc,               \* protocol -> position of the adapter process
    pWrites,           \* client write requests so far
    pLastWrite,        \* the last client write request
    coordPc,           \* position of the coordinator
    coordMsg,          \* the message the coordinator holds
    auth,              \* the coordinator's authoritative values
    updPc,             \* protocol -> position of the adapter's update_pv
                       \* (of each of its threads where they are told apart)
    p_exit_event,      \* protocol -> the adapter's exit_event is set
    p_read,            \* protocol -> result of the startup read of x
    p_serve,           \* name -> epics_config[name]["serve"]
    p_ext_put,         \* protocol -> names the adapter has put to an external PV
    p_shutdown_event,  \* protocol -> the adapter's shutdown_event is set
    p_pending,         \* protocol -> names written and not yet sent to in_queue
    p_resources,       \* protocol -> protocol-library objects the adapter holds
    \* ---- add_to_comm_queue, statement by statement (epics_server.py)
    wq,                \* the calls of add_to_comm_queue in progress, or the
                       \* bookkeeping of the writes an adapter has cached
    \* ---- an input image served over Channel Access and its client
    img                \* the PVs of the image and the last put_image call,
                       \* or the Controller and the server it talks to

tvars == <<srvPc, input_variables, output_variables, comm_queue, pva_queue,
           ca_queue, commPc, data, predicted_output, adPc, adData, adIdx,
           adRead, served, exit_event, nWrites, nDeq, nEval,
           evaluated, lastEvalIn, evalRaised>>

pvars == <<in_queue, out_queue, running_indicator, cached_values,
           p_input_variables, p_served, pPc, pWrites, pLastWrite, coordPc,
           coordMsg, auth, updPc, p_exit_event, p_read, p_serve, p_ext_put,
           p_shutdown_event, p_pending, p_resources>>

avars == <<wq, img>>

vars == <<tvars, pvars, avars>>

NoData == [protocol |-> "none", pvname |-> "none", value |-> None, prev |-> None]
NoEvent == [names |-> <<>>, origin |-> "none", pvname |-> "none", cycle |-> 0]

\* Value of a variable object as a publisher reads it.
ValueOf(name) ==
    IF name \in Inputs THEN input_variables[name] ELSE output_variables[name].value

\* ------------------------------------------------------------ Server.__init__
\* Mutant of ApplyDefaults: the constructor forgets the defaults.
ApplyDefaults_Skipped(ivars) == ivars

\* "update inputs for starting value to be the default"
ApplyDefaults(ivars) ==
    [v \in Inputs |-> IF ivars[v] = None THEN default[v] ELSE ivars[v]]

\* The test model's evaluate: every output is twice its input; the objects
\* of model.output_variables are updated in place.  cycle stamps the call.
Evaluate(ivars, cycle) ==
    [o \in Outputs |-> [value |-> 2 * ivars[InputOf[o]], cycle |-> cycle]]

TInit ==
    /\ srvPc = "declared"
    /\ input_variables \in [Inputs -> {None} \cup {default[v] : v \in Inputs}]
    /\ \A v \in Inputs : input_variables[v] \in {None, default[v]}
    /\ output_variables = [o \in Outputs |-> [value |-> None, cycle |-> 0]]
    /\ comm_queue = <<>>
    /\ pva_queue = <<>>
    /\ ca_queue = <<>>
    /\ commPc = "off"
    /\ data = NoData
    /\ predicted_output = NoEvent
    /\ adPc = [p \in Protocols |-> "off"]
    /\ adData = [p \in Protocols |-> NoEvent]
    /\ adIdx = [p \in Protocols |-> 0]
    /\ adRead = [p \in Protocols |-> [o \in Outputs |-> 0]]
    /\ served = [p \in Protocols |-> [n \in Names |-> None]]
    /\ exit_event = FALSE
    /\ nWrites = 0
    /\ nDeq = 0
    /\ nEval = 0
    /\ evaluated = FALSE
    /\ lastEvalIn = [v \in Inputs |-> None]
    /\ evalRaised = FALSE

\* The empty mapping (an empty dict).
EmptyMap == [n \in {} |-> None]
NoMsg == [protocol |-> "none", key |-> "none", changes |-> EmptyMap]
\* Result of the startup read of an externally hosted input: external is
\* false when the input is served by the adapter itself (serve = True) and
\* nothing is read; ok tells whether the read reached the PV.
NoRead == [external |-> FALSE, ok |-> TRUE, value |-> None]
ExternalValues == {0, 3, 4}
ExternalReads ==
    {[external |-> TRUE, ok |-> FALSE, value |-> None]} \cup
    {[external |-> TRUE, ok |-> TRUE, value |-> v] : v \in ExternalValues}

NoPWrite == [protocol |-> "none", pvname |-> "none", value |-> None, ret |-> "none"]

\* The adapters before run(), whatever the routing entries say.
PInitRest ==
    /\ in_queue = <<>>
    /\ out_queue = [p \in Protocols |-> <<>>]
    /\ running_indicator = FALSE
    /\ cached_values = [p \in Protocols |-> EmptyMap]
    /\ p_input_variables = [p \in Protocols |-> [v \in Inputs |-> None]]
    /\ p_served = [p \in Protocols |-> [n \in Names |-> None]]
    /\ pPc = [p \in Protocols |-> "init"]
    /\ pWrites = 0
    /\ pLastWrite = NoPWrite
    /\ coordPc = "idle"
    /\ coordMsg = NoMsg
    /\ auth = [n \in Names |-> None]
    /\ updPc = [p \in Protocols |-> "idle"]
    /\ p_exit_event = [p \in Protocols |-> FALSE]
    /\ p_read = [p \in Protocols |-> NoRead]
    /\ p_ext_put = [p \in Protocols |-> {}]
    /\ p_shutdown_event = [p \in Protocols |-> FALSE]
    /\ p_pending = [p \in Protocols |-> {}]
    /\ p_resources = [p \in Protocols |-> {}]

\* Every variable served by the adapters themselves (serve = True, the
\* default of the configuration reader).
AllServed == [n \in Names |-> TRUE]

PInit == PInitRest /\ p_serve = AllServed

\* The threads that call add_to_comm_queue: the Channel Access thread
\* (CADriver.write) and the pvAccess thread (PVAccessInputHandler.put).
Callers == Protocols

\* No call of add_to_comm_queue in progress.  pc is the caller's position,
\* i the index of the drain loop; gets, drains and puts count the
\* get_nowait calls, the drain loops and the put calls of the call in
\* progress; unfinished is the queue's unfinished_tasks counter, comm the
\* position of the comm thread with respect to the item it took.
WqInit ==
    wq = [pc |-> [c \in Callers |-> "idle"],
          i |-> [c \in Callers |-> 0],
          gets |-> [c \in Callers |-> 0],
          drains |-> [c \in Callers |-> 0],
          puts |-> [c \in Callers |-> 0],
          calls |-> 0,
          raised |-> FALSE,
          unfinished |-> 0,
          comm |-> "get"]

\* The Channel Access PVs of an image variable that put_image writes
\* (the array and the four bounds).
ImageFields == {"ArrayData_RBV", "MinX_RBV", "MinY_RBV", "MaxX_RBV", "MaxY_RBV"}
BoundFields == ImageFields \ {"ArrayData_RBV"}

\* Arrays (each number stands for one flattened array) and bounds.
ImageValues == {7, 8}
BoundValues == {0, 5, 10}

\* No image variable declared.
NoImage == [pc |-> "none"]

AInit == WqInit /\ img = NoImage

\* The thread-based Server constructs no CAServer and no PVAServer: in its
\* runs their variables hold no object, and the Busy flag is never set.
NotConstructed == "not constructed"
PNotConstructed ==
    /\ running_indicator = FALSE
    /\ in_queue = NotConstructed
    /\ out_queue = NotConstructed
    /\ cached_values = NotConstructed
    /\ p_input_variables = NotConstructed
    /\ p_served = NotConstructed
    /\ pPc = NotConstructed
    /\ pWrites = NotConstructed
    /\ pLastWrite = NotConstructed
    /\ coordPc = NotConstructed
    /\ coordMsg = NotConstructed
    /\ auth = NotConstructed
    /\ updPc = NotConstructed
    /\ p_exit_event = NotConstructed
    /\ p_read = NotConstructed
    /\ p_serve = NotConstructed
    /\ p_ext_put = NotConstructed
    /\ p_shutdown_event = NotConstructed
    /\ p_pending = NotConstructed
    /\ p_resources = NotConstructed

Init == TInit /\ PNotConstructed /\ AInit

\* The process-based adapters run without a thread-based Server: in their
\* runs the Server's variables hold no object.
TNotConstructed ==
    /\ srvPc = NotConstructed
    /\ input_variables = NotConstructed
    /\ output_variables = NotConstructed
    /\ comm_queue = NotConstructed
    /\ pva_queue = NotConstructed
    /\ ca_queue = NotConstructed
    /\ commPc = NotConstructed
    /\ data = NotConstructed
    /\ predicted_output = NotConstructed
    /\ adPc = NotConstructed
    /\ adData = NotConstructed
    /\ adIdx = NotConstructed
    /\ adRead = NotConstructed
    /\ served = NotConstructed
    /\ exit_event = NotConstructed
    /\ nWrites = NotConstructed
    /\ nDeq = NotConstructed
    /\ nEval = NotConstructed
    /\ evaluated = NotConstructed
    /\ lastEvalIn = NotConstructed
    /\ evalRaised = NotConstructed

\* Server.__init__: defaults, then the first evaluation in the main thread.
Server_init ==
    /\ srvPc = "declared"
    /\ srvPc' = "constructed"
    /\ input_variables' = ApplyDefaults(input_variables)
    /\ output_variables' = Evaluate(input_variables', 0)
    /\ evaluated' = TRUE
    /\ lastEvalIn' = input_variables'
    /\ UNCHANGED <<pvars, avars>>
    /\ UNCHANGED <<comm_queue, pva_queue, ca_queue, commPc, data,
                   predicted_output, adPc, adData, adIdx, adRead, served,
                   exit_event, nWrites, nDeq, nEval, evalRaised>>

\* Server.start: a fresh, unset exit event; the comm thread starts, and the
\* thread of each protocol in self.protocols.
Server_start(protocols) ==
    /\ srvPc = "constructed"
    /\ srvPc' = "started"
    /\ exit_event' = FALSE
    /\ commPc' = "get"
    /\ adPc' = [p \in Protocols |-> IF p \in protocols THEN "setup" ELSE "off"]
    /\ UNCHANGED <<pvars, avars>>
    /\ UNCHANGED <<input_variables, output_variables, comm_queue, pva_queue,
                   ca_queue, data, predicted_output, adData, adIdx, adRead,
                   served, nWrites, nDeq, nEval, evaluated,
                   lastEvalIn, evalRaised>>

\* ---------------------------------------------------------- add_to_comm_queue
\* A full queue is emptied (maxsize get_nowait calls), then the item is put.
add_to_comm_queue(queue, put_data) ==
    IF Len(queue) >= CommQueueMax THEN <<put_data>> ELSE Append(queue, put_data)

\* ------------------------------------------- Channel Access thread (ca_thread)
\* run_ca_server up to its loop: build_pvdb seeds every PV from the variable
\* objects, then set_output_pvs publishes the outputs once.
run_ca_server_setup ==
    /\ adPc["ca"] = "setup"
    /\ served' = [served EXCEPT !["ca"] = [n \in Names |-> ValueOf(n)]]
    /\ adRead' = [adRead EXCEPT !["ca"] = [o \in Outputs |-> output_variables[o].cycle]]
    /\ adPc' = [adPc EXCEPT !["ca"] = "loop"]
    /\ UNCHANGED <<pvars, avars>>
    /\ UNCHANGED <<srvPc, input_variables, output_variables, comm_queue,
                   pva_queue, ca_queue, commPc, data, predicted_output, adData,
                   adIdx, exit_event, nWrites, nDeq, nEval,
                   evaluated, lastEvalIn, evalRaised>>

\* CADriver.write, called by ca_server.process inside the CA thread's loop.
CADriver_write(pvname, value) ==
    /\ adPc["ca"] = "loop"
    /\ nWrites' = nWrites + 1
    /\ IF pvname \in Outputs
       THEN \* "Output variables can only be updated via surrogate model callback"
            UNCHANGED <<input_variables, served, comm_queue>>
       ELSE /\ input_variables' = [input_variables EXCEPT ![pvname] = value]
            /\ served' = [served EXCEPT !["ca"][pvname] = value]
            /\ comm_queue' = add_to_comm_queue(comm_queue,
                   [protocol |-> "ca", pvname |-> pvname, value |-> value,
                    prev |-> input_variables[pvname]])
    /\ UNCHANGED <<pvars, avars>>
    /\ UNCHANGED <<srvPc, output_variables, pva_queue, ca_queue, commPc, data,
                   predicted_output, adPc, adData, adIdx, adRead, exit_event,
                   nDeq, nEval, evaluated, lastEvalIn, evalRaised>>

\* The loop body of run_ca_server after process(): ca_queue.get(False).
run_ca_server_get ==
    /\ adPc["ca"] = "loop"
    /\ ca_queue # <<>>
    /\ adData' = [adData EXCEPT !["ca"] = Head(ca_queue)]
    /\ ca_queue' = Tail(ca_queue)
    /\ adIdx' = [adIdx EXCEPT !["ca"] = 1]
    /\ adPc' = [adPc EXCEPT !["ca"] = "set"]
    /\ UNCHANGED <<pvars, avars>>
    /\ UNCHANGED <<srvPc, input_variables, output_variables, comm_queue,
                   pva_queue, commPc, data, predicted_output, adRead, served,
                   exit_event, nWrites, nDeq, nEval, evaluated,
                   lastEvalIn, evalRaised>>

\* One iteration of the for loop of a publisher (set_output_pvs,
\* set_pva_outputs): the variable object is read when its turn comes.  After
\* the last variable the publisher returns to the thread's loop.
PublishStep(p) ==
    LET name == adData[p].names[adIdx[p]]
        last == adIdx[p] = Len(adData[p].names)
    IN
    /\ served' = [served EXCEPT ![p][name] = ValueOf(name)]
    /\ adRead' = IF name \in Outputs
                 THEN [adRead EXCEPT ![p][name] = output_variables[name].cycle]
                 ELSE adRead
    /\ adIdx' = [adIdx EXCEPT ![p] = IF last THEN 0 ELSE adIdx[p] + 1]
    /\ adPc' = [adPc EXCEPT ![p] = IF last THEN "loop" ELSE "set"]
    /\ adData' = [adData EXCEPT ![p] = IF last THEN NoEvent ELSE adData[p]]

\* CADriver.set_output_pvs(data), one step at a time.
CADriver_set_output_pvs ==
    /\ adPc["ca"] = "set"
    /\ PublishStep("ca")
    /\ UNCHANGED <<pvars, avars>>
    /\ UNCHANGED <<srvPc, input_variables, output_variables, comm_queue,
                   pva_queue, ca_queue, commPc, data, predicted_output,
                   exit_event, nWrites, nDeq, nEval, evaluated,
                   lastEvalIn, evalRaised>>

\* ------------------------------------------------- pvAccess thread (pva_thread)
\* run_pva_server up to its loop: one SharedPV per variable, initial = value.
run_pva_server_setup ==
    /\ adPc["pva"] = "setup"
    /\ served' = [served EXCEPT !["pva"] = [n \in Names |-> ValueOf(n)]]
    /\ adRead' = [adRead EXCEPT !["pva"] = [o \in Outputs |-> output_variables[o].cycle]]
    /\ adPc' = [adPc EXCEPT !["pva"] = "loop"]
    /\ UNCHANGED <<pvars, avars>>
    /\ UNCHANGED <<srvPc, input_variables, output_variables, comm_queue,
                   pva_queue, ca_queue, commPc, data, predicted_output, adData,
                   adIdx, exit_event, nWrites, nDeq, nEval,
                   evaluated, lastEvalIn, evalRaised>>

\* PVAccessInputHandler.put, run by pva_worker_queue.handle() in the loop of
\* run_pva_server; only input PVs carry the handler.
PVAccessInputHandler_put(pvname, value) ==
    /\ adPc["pva"] = "loop"
    /\ pvname \in Inputs
    /\ nWrites' = nWrites + 1
    /\ served' = [served EXCEPT !["pva"][pvname] = value]
    /\ input_variables' = [input_variables EXCEPT ![pvname] = value]
    /\ comm_queue' = add_to_comm_queue(comm_queue,
           [protocol |-> "pva", pvname |-> pvname, value |-> value,
            prev |-> input_variables[pvname]])
    /\ UNCHANGED <<pvars, avars>>
    /\ UNCHANGED <<srvPc, output_variables, pva_queue, ca_queue, commPc, data,
                   predicted_output, adPc, adData, adIdx, adRead, exit_event,
                   nDeq, nEval, evaluated, lastEvalIn, evalRaised>>

\* The loop body of run_pva_server after handle(): pva_queue.get_nowait().
run_pva_server_get ==
    /\ adPc["pva"] = "loop"
    /\ pva_queue # <<>>
    /\ adData' = [adData EXCEPT !["pva"] = Head(pva_queue)]
    /\ pva_queue' = Tail(pva_queue)
    /\ adIdx' = [adIdx EXCEPT !["pva"] = 1]
    /\ adPc' = [adPc EXCEPT !["pva"] = "set"]
    /\ UNCHANGED <<pvars, avars>>
    /\ UNCHANGED <<srvPc, input_variables, output_variables, comm_queue,
                   ca_queue, commPc, data, predicted_output, adRead, served,
                   exit_event, nWrites, nDeq, nEval, evaluated,
                   lastEvalIn, evalRaised>>

\* set_pva_outputs(data, prefix), one step at a time.
set_pva_outputs ==
    /\ adPc["pva"] = "set"
    /\ PublishStep("pva")
    /\ UNCHANGED <<pvars, avars>>
    /\ UNCHANGED <<srvPc, input_variables, output_variables, comm_queue,
                   pva_queue, ca_queue, commPc, data, predicted_output,
                   exit_event, nWrites, nDeq, nEval, evaluated,
                   lastEvalIn, evalRaised>>

\* --------------------------------------------- comm thread (run_comm_thread)
\* Mutant of PredictedOutput: the changed input is published along with the
\* outputs, to both queues.
PredictedOutput_WithInput(msg) == Append(OutputOrder, msg.pvname)

\* The variables of the event the comm thread publishes: the list evaluate
\* returns, nothing else.
PredictedOutput(msg) == OutputOrder

\* The assignment run_comm_thread makes when it has dequeued a message.
MergeUpdate(ivars, msg) == [ivars EXCEPT ![msg.pvname] = msg.value]

\* data = comm_queue.get(timeout=0.1); the input is assigned.  An empty
\* queue raises Empty and the loop continues.
run_comm_thread_get ==
    /\ commPc = "get"
    /\ comm_queue # <<>>
    /\ data' = Head(comm_queue)
    /\ comm_queue' = Tail(comm_queue)
    /\ input_variables' = MergeUpdate(input_variables, Head(comm_queue))
    /\ nDeq' = nDeq + 1
    /\ commPc' = "evaluate"
    /\ UNCHANGED <<pvars, avars>>
    /\ UNCHANGED <<srvPc, output_variables, pva_queue, ca_queue,
                   predicted_output, adPc, adData, adIdx, adRead, served,
                   exit_event, nWrites, nEval, evaluated,
                   lastEvalIn, evalRaised>>

\* Mutant of run_comm_thread_evaluate: an update whose value the input already
\* holds is published without evaluating the model again.
run_comm_thread_evaluate_Debounced ==
    /\ commPc = "evaluate"
    /\ IF input_variables[data.pvname] = data.value
       THEN /\ UNCHANGED <<nEval, evaluated, lastEvalIn, output_variables>>
            /\ predicted_output' = [names |-> PredictedOutput(data),
                                    origin |-> data.protocol,
                                    pvname |-> data.pvname,
                                    cycle |-> nEval]
       ELSE /\ nEval' = nEval + 1
            /\ evaluated' = TRUE
            /\ lastEvalIn' = input_variables
            /\ output_variables' = Evaluate(input_variables, nEval + 1)
            /\ predicted_output' = [names |-> PredictedOutput(data),
                                    origin |-> data.protocol,
                                    pvname |-> data.pvname,
                                    cycle |-> nEval + 1]
    /\ commPc' = "put_pva"
    /\ UNCHANGED <<pvars, avars>>
    /\ UNCHANGED <<srvPc, input_variables, comm_queue, pva_queue, ca_queue,
                   data, adPc, adData, adIdx, adRead, served, exit_event,
                   nWrites, nDeq, evalRaised>>

\* predicted_output = model.evaluate(self.input_variables).  The model is
\* opaque: the call may raise, and nothing in the thread catches that.
run_comm_thread_evaluate ==
    /\ commPc = "evaluate"
    /\ nEval' = nEval + 1
    /\ evaluated' = TRUE
    /\ lastEvalIn' = input_variables
    /\ \E raises \in BOOLEAN :
         IF raises
         THEN /\ commPc' = "dead"
              /\ evalRaised' = TRUE
              /\ UNCHANGED <<output_variables, predicted_output>>
         ELSE /\ output_variables' = Evaluate(input_variables, nEval + 1)
              /\ predicted_output' = [names |-> PredictedOutput(data),
                                      origin |-> data.protocol,
                                      pvname |-> data.pvname,
                                      cycle |-> nEval + 1]
              /\ commPc' = "put_pva"
              /\ UNCHANGED evalRaised
    /\ UNCHANGED <<pvars, avars>>
    /\ UNCHANGED <<srvPc, input_variables, comm_queue, pva_queue, ca_queue,
                   data, adPc, adData, adIdx, adRead, served, exit_event,
                   nWrites, nDeq>>

\* pva_queue.put(predicted_output, timeout=0.1); Full is caught by the loop,
\* which then skips the rest of the cycle.
run_comm_thread_put_pva ==
    /\ commPc = "put_pva"
    /\ IF Len(pva_queue) < PvaQueueMax
       THEN /\ pva_queue' = Append(pva_queue, predicted_output)
            /\ commPc' = "put_ca"
            /\ UNCHANGED <<data, predicted_output>>
       ELSE /\ commPc' = "get"
            /\ data' = NoData
            /\ predicted_output' = NoEvent
            /\ UNCHANGED pva_queue
    /\ UNCHANGED <<pvars, avars>>
    /\ UNCHANGED <<srvPc, input_variables, output_variables, comm_queue,
                   ca_queue, adPc, adData, adIdx, adRead, served, exit_event,
                   nWrites, nDeq, nEval, evaluated, lastEvalIn,
                   evalRaised>>

\* ca_queue.put(predicted_output, timeout=0.1); comm_queue.task_done().
run_comm_thread_put_ca ==
    /\ commPc = "put_ca"
    /\ IF Len(ca_queue) < CaQueueMax
       THEN ca_queue' = Append(ca_queue, predicted_output)
       ELSE UNCHANGED ca_queue
    /\ commPc' = "get"
    /\ data' = NoData
    /\ predicted_output' = NoEvent
    /\ UNCHANGED <<pvars, avars>>
    /\ UNCHANGED <<srvPc, input_variables, output_variables, comm_queue,
                   pva_queue, adPc, adData, adIdx, adRead, served, exit_event,
                   nWrites, nDeq, nEval, evaluated, lastEvalIn,
                   evalRaised>>

Next ==
    \/ Server_init
    \/ Server_start(Protocols)
    \/ run_ca_server_setup
    \/ \E pvname \in Names, value \in WriteValues :
          nWrites < MaxWrites /\ CADriver_write(pvname, value)
    \/ run_ca_server_get
    \/ CADriver_set_output_pvs
    \/ run_pva_server_setup
    \/ \E pvname \in Inputs, value \in WriteValues :
          nWrites < MaxWrites /\ PVAccessInputHandler_put(pvname, value)
    \/ run_pva_server_get
    \/ set_pva_outputs
    \/ run_comm_thread_get
    \/ run_comm_thread_evaluate
    \/ run_comm_thread_put_pva
    \/ run_comm_thread_put_ca

\* Server.stop(), called from the main thread once the server has started.
\* With "ca" in self.protocols it evaluates self.ca_driver.exit_event:
\* self.ca_driver is assigned by the Channel Access thread during its setup
\* (AttributeError before that), and CADriver defines no exit_event, so the
\* attribute is there only if the driver's base class provides it (has_attr).
\* With "pva" in self.protocols it calls self.pva_server.stop(), pva_server
\* being assigned by the pvAccess thread at the end of its setup.  Nothing
\* the threads read is changed: their loops are "while True".
Server_stop ==
    /\ srvPc = "started"
    /\ \E has_attr \in BOOLEAN :
         LET ca_raises == adPc["ca"] # "off" /\ (adPc["ca"] = "setup" \/ ~has_attr)
             pva_raises == adPc["pva"] = "setup"
         IN srvPc' = IF ca_raises \/ pva_raises THEN "stop_raised" ELSE "stopped"
    /\ UNCHANGED <<pvars, avars>>
    /\ UNCHANGED <<input_variables, output_variables, comm_queue, pva_queue,
                   ca_queue, commPc, data, predicted_output, adPc, adData,
                   adIdx, adRead, served, exit_event, nWrites, nDeq, nEval,
                   evaluated, lastEvalIn, evalRaised>>

\* The thread-based Server started with any of its protocol lists, taking
\* Channel Access and pvAccess writes to x, and stopped with stop().
NextT ==
    \/ Server_init
    \/ \E protocols \in {Protocols, {"ca"}, {"pva"}} : Server_start(protocols)
    \/ Server_stop
    \/ run_ca_server_setup
    \/ \E value \in WriteValues :
          nWrites < MaxWrites /\ CADriver_write("x", value)
    \/ run_ca_server_get
    \/ CADriver_set_output_pvs
    \/ run_pva_server_setup
    \/ \E value \in WriteValues :
          nWrites < MaxWrites /\ PVAccessInputHandler_put("x", value)
    \/ run_pva_server_get
    \/ set_pva_outputs
    \/ run_comm_thread_get
    \/ run_comm_thread_evaluate
    \/ run_comm_thread_put_pva
    \/ run_comm_thread_put_ca

\* The steps of the three threads of the Server.
run_comm_thread ==
    \/ run_comm_thread_get
    \/ run_comm_thread_evaluate
    \/ run_comm_thread_put_pva
    \/ run_comm_thread_put_ca

run_ca_server ==
    \/ run_ca_server_setup
    \/ run_ca_server_get
    \/ CADriver_set_output_pvs

run_pva_server ==
    \/ run_pva_server_setup
    \/ run_pva_server_get
    \/ set_pva_outputs

\* Every started thread keeps running.
SpecT ==
    /\ Init
    /\ [][NextT]_vars
    /\ WF_vars(run_comm_thread)
    /\ WF_vars(run_ca_server)
    /\ WF_vars(run_pva_server)

\* ------------------------------- add_to_comm_queue, statement by statement
\* Queue.task_done(): ValueError when it is called more often than items
\* were put.
task_done(q) ==
    IF q.unfinished = 0 THEN [q EXCEPT !.raised = TRUE]
    ELSE [q EXCEPT !.unfinished = @ - 1]

\* Mutant of DrainGet: the Empty of get_nowait is not caught.
DrainGet_EmptyNotCaught(queue, q) ==
    IF queue = <<>>
    THEN [queue |-> queue, q |-> [q EXCEPT !.raised = TRUE]]
    ELSE [queue |-> Tail(queue), q |-> task_done(q)]

\* One turn of the drain loop: get_nowait and task_done, the Empty of an
\* empty queue being caught and passed over.
DrainGet(queue, q) ==
    IF queue = <<>>
    THEN [queue |-> queue, q |-> q]
    ELSE [queue |-> Tail(queue), q |-> task_done(q)]

\* A write handler calls add_to_comm_queue.
add_to_comm_queue_call(c) ==
    /\ wq.pc[c] = "idle"
    /\ wq.calls < MaxWritesQ
    /\ wq' = [wq EXCEPT !.pc[c] = "full", !.i[c] = 0, !.gets[c] = 0,
                         !.drains[c] = 0, !.puts[c] = 0, !.calls = @ + 1]
    /\ UNCHANGED <<tvars, pvars, img>>

\* if comm_queue.full():
add_to_comm_queue_full(c) ==
    /\ wq.pc[c] = "full"
    /\ wq' = IF Len(comm_queue) >= CommQueueMax
             THEN [wq EXCEPT !.pc[c] = "drain", !.drains[c] = @ + 1]
             ELSE [wq EXCEPT !.pc[c] = "put"]
    /\ UNCHANGED <<tvars, pvars, img>>

\* for i in range(comm_queue.maxsize): one turn.
add_to_comm_queue_drain(c) ==
    /\ wq.pc[c] = "drain"
    /\ LET after == DrainGet(comm_queue, wq)
           last == wq.i[c] + 1 = CommQueueMax
       IN /\ comm_queue' = after.queue
          /\ wq' = [after.q EXCEPT !.gets[c] = @ + 1,
                                   !.i[c] = IF last THEN 0 ELSE @ + 1,
                                   !.pc[c] = IF last THEN "put" ELSE "drain"]
    /\ UNCHANGED <<pvars, img>>
    /\ UNCHANGED <<srvPc, input_variables, output_variables, pva_queue,
                   ca_queue, commPc, data, predicted_output, adPc, adData,
                   adIdx, adRead, served, exit_event, nWrites, nDeq, nEval,
                   evaluated, lastEvalIn, evalRaised>>

\* comm_queue.put(put_data, timeout=0.1): the Full of a queue that stayed
\* full is caught and logged.  Then the function returns.
add_to_comm_queue_put(c) ==
    /\ wq.pc[c] = "put"
    /\ IF Len(comm_queue) < CommQueueMax
       THEN /\ comm_queue' = Append(comm_queue,
                    [protocol |-> c, pvname |-> "x", value |-> 3, prev |-> None])
            /\ wq' = [wq EXCEPT !.pc[c] = "idle", !.puts[c] = @ + 1,
                                !.unfinished = @ + 1]
       ELSE /\ UNCHANGED comm_queue
            /\ wq' = [wq EXCEPT !.pc[c] = "idle", !.puts[c] = @ + 1]
    /\ UNCHANGED <<pvars, img>>
    /\ UNCHANGED <<srvPc, input_variables, output_variables, pva_queue,
                   ca_queue, commPc, data, predicted_output, adPc, adData,
                   adIdx, adRead, served, exit_event, nWrites, nDeq, nEval,
                   evaluated, lastEvalIn, evalRaised>>

\* The comm thread's side of the queue: comm_queue.get(timeout=0.1) ...
comm_queue_get ==
    /\ wq.comm = "get"
    /\ comm_queue # <<>>
    /\ comm_queue' = Tail(comm_queue)
    /\ wq' = [wq EXCEPT !.comm = "work"]
    /\ UNCHANGED <<pvars, img>>
    /\ UNCHANGED <<srvPc, input_variables, output_variables, pva_queue,
                   ca_queue, commPc, data, predicted_output, adPc, adData,
                   adIdx, adRead, served, exit_event, nWrites, nDeq, nEval,
                   evaluated, lastEvalIn, evalRaised>>

\* ... and comm_queue.task_done() at the end of the cycle, which a Full of
\* pva_queue or ca_queue skips (done = FALSE).
comm_queue_task_done ==
    /\ wq.comm = "work"
    /\ \E done \in BOOLEAN :
         wq' = [(IF done THEN task_done(wq) ELSE wq) EXCEPT !.comm = "get"]
    /\ UNCHANGED <<tvars, pvars, img>>

\* The steps of one call of add_to_comm_queue.
add_to_comm_queue_steps(c) ==
    \/ add_to_comm_queue_full(c)
    \/ add_to_comm_queue_drain(c)
    \/ add_to_comm_queue_put(c)

\* The value written in the long runs of specification SpecQ.
WriteValuesQ == {3}

\* The thread-based Server under a long run of Channel Access writes to the
\* input x, started with both protocols or with protocols = ["ca"] alone.
\* The comm thread puts on pva_queue and ca_queue whichever threads run.  The
\* runs considered are those in which the pvAccess thread, where started,
\* does not get to take an event from pva_queue after its setup.
NextQ ==
    \/ Server_init
    \/ \E protocols \in {Protocols, {"ca"}} : Server_start(protocols)
    \/ run_ca_server_setup
    \/ \E value \in WriteValuesQ :
          nWrites < MaxWritesQ /\ CADriver_write("x", value)
    \/ run_ca_server_get
    \/ CADriver_set_output_pvs
    \/ run_pva_server_setup
    \/ run_comm_thread_get
    \/ run_comm_thread_evaluate
    \/ run_comm_thread_put_pva
    \/ run_comm_thread_put_ca

SpecQ == Init /\ [][NextQ]_vars

\* run_comm_thread statement by statement, first statement of the loop body:
\* data = comm_queue.get(timeout=0.1).
run_comm_thread_dequeue ==
    /\ commPc = "get"
    /\ comm_queue # <<>>
    /\ data' = Head(comm_queue)
    /\ comm_queue' = Tail(comm_queue)
    /\ nDeq' = nDeq + 1
    /\ commPc' = "merge"
    /\ UNCHANGED <<pvars, avars>>
    /\ UNCHANGED <<srvPc, input_variables, output_variables, pva_queue,
                   ca_queue, predicted_output, adPc, adData, adIdx, adRead,
                   served, exit_event, nWrites, nEval, evaluated, lastEvalIn,
                   evalRaised>>

\* Second statement:
\* self.input_variables[data["pvname"]].value = data["value"].
run_comm_thread_merge ==
    /\ commPc = "merge"
    /\ input_variables' = MergeUpdate(input_variables, data)
    /\ commPc' = "evaluate"
    /\ UNCHANGED <<pvars, avars>>
    /\ UNCHANGED <<srvPc, output_variables, comm_queue, pva_queue, ca_queue,
                   data, predicted_output, adPc, adData, adIdx, adRead, served,
                   exit_event, nWrites, nDeq, nEval, evaluated, lastEvalIn,
                   evalRaised>>

\* The client writes of specification SpecO: two values of x and one of k.
WritesO == {<<"x", 3>>, <<"x", 4>>, <<"k", 3>>}

\* The thread-based Server started with protocols = ["ca"] under a run of
\* Channel Access writes long enough to overflow comm_queue, the comm
\* thread's loop body taken statement by statement.  The runs considered are
\* those in which the Channel Access thread serves its clients and does not
\* get to take an event from ca_queue.
NextO ==
    \/ Server_init
    \/ Server_start({"ca"})
    \/ run_ca_server_setup
    \/ \E w \in WritesO :
          nWrites < MaxWritesO /\ CADriver_write(w[1], w[2])
    \/ run_comm_thread_dequeue
    \/ run_comm_thread_merge
    \/ run_comm_thread_evaluate
    \/ run_comm_thread_put_pva
    \/ run_comm_thread_put_ca

SpecO == Init /\ [][NextO]_vars

\* ======================================================================
\* Process-based adapters: CAServer (epics_ca_server.py) and PVAServer
\* (epics_pva_server.py), with the coordinator they are written against.
\* ======================================================================

\* dict.update({name: value}) / dict[name] = value
MapPut(map, name, value) ==
    [n \in (DOMAIN map) \cup {name} |-> IF n = name THEN value ELSE map[n]]

\* Values a client may send to a process-based adapter; None is the write
\* without a value the handlers test for.
PWriteValues == WriteValues \cup {None}

\* CAServer._initialize_model: the message {"protocol": "ca", "pvs": {...}}.
CAServer_initialize_model(ivars) ==
    [protocol |-> "ca", key |-> "pvs", changes |-> ivars]

\* PVAServer._initialize_model: the message {"protocol": "pva", "vars": ...}.
PVAServer_initialize_model(ivars) ==
    [protocol |-> "pva", key |-> "vars", changes |-> ivars]

\* The test CAServer.setup_server makes on the result of epics.caget,
\* "if not val": caget gives None when the read fails, and Python takes
\* None and 0 alike for false.
CAReadFailed(val) == ~val.ok \/ val.value = 0

\* The inputs after the loop over self._input_variables: a served input
\* takes its default, the externally hosted x the value read.
SeededInputs(read) ==
    [v \in Inputs |-> IF v = "x" /\ read.external THEN read.value ELSE default[v]]

\* CAServer.setup_server, up to the wait for the first model outputs: served
\* inputs take their default, an externally hosted input is read with caget
\* (a failed read sets exit_event and raises ValueError), then the inputs are
\* sent to the coordinator.
CAServer_setup_server(read) ==
    /\ pPc["ca"] = "init"
    /\ read.external = ~p_serve["x"]
    /\ p_read' = [p_read EXCEPT !["ca"] = read]
    /\ IF read.external /\ CAReadFailed(read)
       THEN /\ p_exit_event' = [p_exit_event EXCEPT !["ca"] = TRUE]
            /\ pPc' = [pPc EXCEPT !["ca"] = "crashed"]
            /\ UNCHANGED <<p_input_variables, in_queue>>
       ELSE /\ p_input_variables' = [p_input_variables EXCEPT
                                        !["ca"] = SeededInputs(read)]
            /\ in_queue' = Append(in_queue,
                               CAServer_initialize_model(SeededInputs(read)))
            /\ pPc' = [pPc EXCEPT !["ca"] = "wait"]
            /\ UNCHANGED p_exit_event
    /\ UNCHANGED <<tvars, avars>>
    /\ UNCHANGED <<p_serve, p_ext_put, p_shutdown_event, p_pending, p_resources>>
    /\ UNCHANGED <<out_queue, running_indicator, cached_values, p_served,
                   pWrites, pLastWrite, coordPc, coordMsg, auth, updPc>>

\* The values an event carries for the names of a set.
EventValues(event, names, old) ==
    [n \in names |->
        IF \E i \in 1..Len(event.changes) : event.changes[i].name = n
        THEN LET i == CHOOSE j \in 1..Len(event.changes) : event.changes[j].name = n
             IN event.changes[i].value
        ELSE old[n]]

\* The PVs an adapter creates in setup_server: one for each variable whose
\* routing entry says serve, with the variable's value; a variable hosted
\* externally gets none.
ServedPVs(values) == [n \in Names |-> IF p_serve[n] THEN values[n] ELSE None]

\* CAServer.setup_server, the rest: model_outputs = self._out_queue.get();
\* model_outputs["output_variables"] seeds the outputs, build_pvdb and
\* createPV serve the variables to serve.  An event without that key is a
\* KeyError.
CAServer_setup_outputs ==
    /\ pPc["ca"] = "wait"
    /\ out_queue["ca"] # <<>>
    /\ out_queue' = [out_queue EXCEPT !["ca"] = Tail(out_queue["ca"])]
    /\ LET model_outputs == Head(out_queue["ca"]) IN
       IF model_outputs.kind = "output"
       THEN /\ p_served' = [p_served EXCEPT !["ca"] = ServedPVs(
                   [n \in Names |->
                       IF n \in Inputs THEN p_input_variables["ca"][n]
                       ELSE EventValues(model_outputs, Outputs,
                                        [o \in Outputs |-> None])[n]])]
            /\ p_resources' = [p_resources EXCEPT !["ca"] = {"server_thread"}]
            /\ pPc' = [pPc EXCEPT !["ca"] = "run"]
       ELSE /\ pPc' = [pPc EXCEPT !["ca"] = "crashed"]
            /\ UNCHANGED <<p_served, p_resources>>
    /\ UNCHANGED <<tvars, avars>>
    /\ UNCHANGED <<p_exit_event, p_read>>
    /\ UNCHANGED <<p_serve, p_ext_put, p_shutdown_event, p_pending>>
    /\ UNCHANGED <<in_queue, running_indicator, cached_values,
                   p_input_variables, pWrites, pLastWrite, coordPc, coordMsg,
                   auth, updPc>>

\* CAServer.update_pv, first half: the write is cached and the running
\* indicator, a value shared with the coordinator's process, is read.
CAServer_update_pv(pvname, value) ==
    /\ cached_values' = [cached_values EXCEPT
                             !["ca"] = MapPut(cached_values["ca"], pvname, value)]
    /\ updPc' = [updPc EXCEPT !["ca"] = IF ~running_indicator THEN "put" ELSE "idle"]
    /\ p_pending' = [p_pending EXCEPT !["ca"] = @ \cup {pvname}]
    /\ UNCHANGED in_queue

\* Mutant of CAServer_update_pv_put: having sent its cache, the adapter marks
\* the model as running itself.
CAServer_update_pv_put_SetsFlag ==
    /\ updPc["ca"] = "put"
    /\ in_queue' = Append(in_queue,
           [protocol |-> "ca", key |-> "pvs", changes |-> cached_values["ca"]])
    /\ cached_values' = [cached_values EXCEPT !["ca"] = EmptyMap]
    /\ updPc' = [updPc EXCEPT !["ca"] = "idle"]
    /\ p_pending' = [p_pending EXCEPT !["ca"] = {}]
    /\ running_indicator' = TRUE
    /\ UNCHANGED <<tvars, avars>>
    /\ UNCHANGED <<p_exit_event, p_read>>
    /\ UNCHANGED <<p_serve, p_ext_put, p_shutdown_event, p_resources>>
    /\ UNCHANGED <<out_queue, p_input_variables, p_served,
                   pPc, pWrites, pLastWrite, coordPc, coordMsg, auth>>

\* CAServer.update_pv, second half, when the indicator read was false: the
\* cache is put on the in queue and emptied.
CAServer_update_pv_put ==
    /\ updPc["ca"] = "put"
    /\ in_queue' = Append(in_queue,
           [protocol |-> "ca", key |-> "pvs", changes |-> cached_values["ca"]])
    /\ cached_values' = [cached_values EXCEPT !["ca"] = EmptyMap]
    /\ updPc' = [updPc EXCEPT !["ca"] = "idle"]
    /\ p_pending' = [p_pending EXCEPT !["ca"] = {}]
    /\ UNCHANGED <<tvars, avars>>
    /\ UNCHANGED <<p_exit_event, p_read>>
    /\ UNCHANGED <<p_serve, p_ext_put, p_shutdown_event, p_resources>>
    /\ UNCHANGED <<out_queue, running_indicator, p_input_variables, p_served,
                   pPc, pWrites, pLastWrite, coordPc, coordMsg, auth>>

\* Mutant of CAIsConstant: the driver takes no variable for a constant.
CAIsConstant_Never(name) == FALSE

\* self.server._input_variables[model_var_name].is_constant
CAIsConstant(name) == is_constant[name]

\* A PV name that is in no routing entry (epics_config).
UnknownPVs == {"u"}

\* Mutant of CAWriteResult: the driver does not test the value for None.
CAWriteResult_NoNoneCheck(pvname, value) ==
    IF pvname \in Outputs THEN "False"
    ELSE IF pvname \in Inputs
         THEN (IF CAIsConstant(pvname) THEN "None" ELSE "True")
         ELSE "False"

\* What CADriver.write returns: False for an output variable, for a value
\* of None and for a name found in no variable; nothing (None) for a
\* constant input; True for a write it accepts.
CAWriteResult(pvname, value) ==
    IF pvname \in Outputs THEN "False"
    ELSE IF value = None THEN "False"
    ELSE IF pvname \in Inputs
         THEN (IF CAIsConstant(pvname) THEN "None" ELSE "True")
         ELSE "False"

\* CADriver.write of epics_ca_server.py.
CAServer_CADriver_write(pvname, value) ==
    /\ pPc["ca"] = "run"
    /\ updPc["ca"] = "idle"
    /\ Len(in_queue) < MaxPQueue
    /\ pWrites < MaxWrites
    /\ pWrites' = pWrites + 1
    /\ pLastWrite' = [protocol |-> "ca", pvname |-> pvname, value |-> value,
                       ret |-> CAWriteResult(pvname, value)]
    /\ IF CAWriteResult(pvname, value) = "True"
       THEN \* setParam, updatePVs, self.server.update_pv
            /\ p_served' = [p_served EXCEPT !["ca"][pvname] = value]
            /\ CAServer_update_pv(pvname, value)
       ELSE UNCHANGED <<p_served, in_queue, cached_values, updPc, p_pending>>
    /\ UNCHANGED <<tvars, avars>>
    /\ UNCHANGED <<p_exit_event, p_read>>
    /\ UNCHANGED <<p_serve, p_ext_put, p_shutdown_event, p_resources>>
    /\ UNCHANGED <<out_queue, running_indicator, p_input_variables, pPc,
                   coordPc, coordMsg, auth>>

\* CADriver.update_pvs: every variable of the event but a constant input is
\* set on its PV with setParam.  The driver holds parameters for the PVs of
\* the pvdb only: a variable hosted externally has none to set.
CADriver_update_pvs(event, params) ==
    [n \in Names |->
        IF (n \in Inputs /\ is_constant[n]) \/ ~p_serve[n] THEN params[n]
        ELSE EventValues(event, Names, params)[n]]

\* CAServer.run, one turn of the loop with an event in the out queue.
CAServer_run ==
    /\ pPc["ca"] = "run"
    /\ ~p_shutdown_event["ca"]
    /\ out_queue["ca"] # <<>>
    /\ out_queue' = [out_queue EXCEPT !["ca"] = Tail(out_queue["ca"])]
    /\ p_served' = [p_served EXCEPT !["ca"] =
                        CADriver_update_pvs(Head(out_queue["ca"]), p_served["ca"])]
    /\ UNCHANGED <<tvars, avars>>
    /\ UNCHANGED <<p_exit_event, p_read>>
    /\ UNCHANGED <<p_serve, p_ext_put, p_shutdown_event, p_pending, p_resources>>
    /\ UNCHANGED <<in_queue, running_indicator, cached_values,
                   p_input_variables, pPc, pWrites, pLastWrite, coordPc,
                   coordMsg, auth, updPc>>

\* CAServer.run once shutdown_event is set: the loop ends and the server
\* thread is stopped.
CAServer_run_exit ==
    /\ pPc["ca"] = "run"
    /\ p_shutdown_event["ca"]
    /\ p_resources' = [p_resources EXCEPT !["ca"] = {}]
    /\ pPc' = [pPc EXCEPT !["ca"] = "stopped"]
    /\ UNCHANGED <<tvars, avars>>
    /\ UNCHANGED <<p_exit_event, p_read>>
    /\ UNCHANGED <<p_serve, p_ext_put, p_shutdown_event, p_pending>>
    /\ UNCHANGED <<in_queue, out_queue, running_indicator, cached_values,
                   p_input_variables, p_served, pWrites, pLastWrite, coordPc,
                   coordMsg, auth, updPc>>

\* CAServer.shutdown, called from the parent process.
CAServer_shutdown ==
    /\ ~p_shutdown_event["ca"]
    /\ p_shutdown_event' = [p_shutdown_event EXCEPT !["ca"] = TRUE]
    /\ UNCHANGED <<tvars, avars>>
    /\ UNCHANGED <<p_exit_event, p_read>>
    /\ UNCHANGED <<p_serve, p_ext_put, p_pending, p_resources>>
    /\ UNCHANGED <<in_queue, out_queue, running_indicator, cached_values,
                   p_input_variables, p_served, pPc, pWrites, pLastWrite,
                   coordPc, coordMsg, auth, updPc>>

\* PVAServer.setup_server, up to the wait for the first model outputs: an
\* externally hosted input is read with Context.get inside try / except (any
\* exception sets exit_event and raises ValueError).
PVAServer_setup_server(read) ==
    /\ pPc["pva"] = "init"
    /\ read.external = ~p_serve["x"]
    /\ p_resources' = [p_resources EXCEPT !["pva"] = {"context"}]
    /\ p_read' = [p_read EXCEPT !["pva"] = read]
    /\ IF read.external /\ ~read.ok
       THEN /\ p_exit_event' = [p_exit_event EXCEPT !["pva"] = TRUE]
            /\ pPc' = [pPc EXCEPT !["pva"] = "crashed"]
            /\ UNCHANGED <<p_input_variables, in_queue>>
       ELSE /\ p_input_variables' = [p_input_variables EXCEPT
                                        !["pva"] = SeededInputs(read)]
            /\ in_queue' = Append(in_queue,
                               PVAServer_initialize_model(SeededInputs(read)))
            /\ pPc' = [pPc EXCEPT !["pva"] = "wait"]
            /\ UNCHANGED p_exit_event
    /\ UNCHANGED <<tvars, avars>>
    /\ UNCHANGED <<p_serve, p_ext_put, p_shutdown_event, p_pending>>
    /\ UNCHANGED <<out_queue, running_indicator, cached_values, p_served,
                   pWrites, pLastWrite, coordPc, coordMsg, auth, updPc>>

\* PVAServer.setup_server, the rest, shutdown_event not set: the first event
\* of the out queue; model_outputs.get("output_variables", []) seeds the
\* outputs, one SharedPV per variable to serve is created with the
\* variable's value and the P4PServer is started.
PVAServer_setup_outputs ==
    /\ pPc["pva"] = "wait"
    /\ ~p_shutdown_event["pva"]
    /\ p_resources' = [p_resources EXCEPT !["pva"] = @ \cup {"pva_server"}]
    /\ out_queue["pva"] # <<>>
    /\ out_queue' = [out_queue EXCEPT !["pva"] = Tail(out_queue["pva"])]
    /\ LET model_outputs == Head(out_queue["pva"])
           outs == IF model_outputs.kind = "output"
                   THEN EventValues(model_outputs, Outputs, [o \in Outputs |-> None])
                   ELSE [o \in Outputs |-> None]
       IN p_served' = [p_served EXCEPT !["pva"] = ServedPVs(
              [n \in Names |->
                  IF n \in Inputs THEN p_input_variables["pva"][n] ELSE outs[n]])]
    /\ pPc' = [pPc EXCEPT !["pva"] = "run"]
    /\ UNCHANGED <<tvars, avars>>
    /\ UNCHANGED <<p_exit_event, p_read>>
    /\ UNCHANGED <<p_serve, p_ext_put, p_shutdown_event, p_pending>>
    /\ UNCHANGED <<in_queue, running_indicator, cached_values,
                   p_input_variables, pWrites, pLastWrite, coordPc, coordMsg,
                   auth, updPc>>

\* Mutant of PVAServer_setup_shutdown: the wait for the first model outputs
\* is a get without timeout that does not look at shutdown_event.
PVAServer_setup_shutdown_Blocking ==
    /\ FALSE
    /\ UNCHANGED vars

\* PVAServer.setup_server, the wait for the first model outputs when
\* shutdown_event is set: the loop over get(timeout=0.1) ends and no server
\* is created.
PVAServer_setup_shutdown ==
    /\ pPc["pva"] = "wait"
    /\ p_shutdown_event["pva"]
    /\ pPc' = [pPc EXCEPT !["pva"] = "run"]
    /\ UNCHANGED <<tvars, avars>>
    /\ UNCHANGED <<p_exit_event, p_read>>
    /\ UNCHANGED <<p_serve, p_ext_put, p_shutdown_event, p_pending, p_resources>>
    /\ UNCHANGED <<in_queue, out_queue, running_indicator, cached_values,
                   p_input_variables, p_served, pWrites, pLastWrite, coordPc,
                   coordMsg, auth, updPc>>

\* PVAServer.run once shutdown_event is set: the loop ends, the client
\* context is closed and the server, if one was created, is stopped.
PVAServer_run_exit ==
    /\ pPc["pva"] = "run"
    /\ p_shutdown_event["pva"]
    /\ p_resources' = [p_resources EXCEPT !["pva"] = {}]
    /\ pPc' = [pPc EXCEPT !["pva"] = "stopped"]
    /\ UNCHANGED <<tvars, avars>>
    /\ UNCHANGED <<p_exit_event, p_read>>
    /\ UNCHANGED <<p_serve, p_ext_put, p_shutdown_event, p_pending>>
    /\ UNCHANGED <<in_queue, out_queue, running_indicator, cached_values,
                   p_input_variables, p_served, pWrites, pLastWrite, coordPc,
                   coordMsg, auth, updPc>>

\* PVAServer.shutdown, called from the parent process.
PVAServer_shutdown ==
    /\ ~p_shutdown_event["pva"]
    /\ p_shutdown_event' = [p_shutdown_event EXCEPT !["pva"] = TRUE]
    /\ UNCHANGED <<tvars, avars>>
    /\ UNCHANGED <<p_exit_event, p_read>>
    /\ UNCHANGED <<p_serve, p_ext_put, p_pending, p_resources>>
    /\ UNCHANGED <<in_queue, out_queue, running_indicator, cached_values,
                   p_input_variables, p_served, pPc, pWrites, pLastWrite,
                   coordPc, coordMsg, auth, updPc>>

\* PVAServer.update_pv, first half: the adapter's variable object of the PV
\* is cached (the one already cached wins) and the running indicator is
\* read.  The written value is not stored in the object.
PVAServer_update_pv(pvname, value) ==
    LET model_variable ==
            IF pvname \in DOMAIN cached_values["pva"]
            THEN cached_values["pva"][pvname]
            ELSE p_input_variables["pva"][pvname]
    IN
    /\ cached_values' = [cached_values EXCEPT
               !["pva"] = MapPut(cached_values["pva"], pvname, model_variable)]
    /\ updPc' = [updPc EXCEPT !["pva"] = IF ~running_indicator THEN "put" ELSE "idle"]
    /\ p_pending' = [p_pending EXCEPT !["pva"] = @ \cup {pvname}]
    /\ UNCHANGED in_queue

\* PVAServer.update_pv, second half, when the indicator read was false: the
\* cache is put on the in queue and emptied.
PVAServer_update_pv_put ==
    /\ updPc["pva"] = "put"
    /\ in_queue' = Append(in_queue,
           [protocol |-> "pva", key |-> "vars", changes |-> cached_values["pva"]])
    /\ cached_values' = [cached_values EXCEPT !["pva"] = EmptyMap]
    /\ updPc' = [updPc EXCEPT !["pva"] = "idle"]
    /\ p_pending' = [p_pending EXCEPT !["pva"] = {}]
    /\ UNCHANGED <<tvars, avars>>
    /\ UNCHANGED <<p_exit_event, p_read>>
    /\ UNCHANGED <<p_serve, p_ext_put, p_shutdown_event, p_resources>>
    /\ UNCHANGED <<out_queue, running_indicator, p_input_variables, p_served,
                   pPc, pWrites, pLastWrite, coordPc, coordMsg, auth>>

\* PVAccessInputHandler.put of epics_pva_server.py; self.is_constant is the
\* variable's is_constant, stored when the handler is created.
PVAServer_PVAccessInputHandler_put(pvname, value) ==
    /\ pPc["pva"] = "run"
    /\ updPc["pva"] = "idle"
    /\ Len(in_queue) < MaxPQueue
    /\ pvname \in Inputs
    /\ pWrites < MaxWrites
    /\ pWrites' = pWrites + 1
    /\ pLastWrite' = [protocol |-> "pva", pvname |-> pvname, value |-> value,
                       ret |-> "none"]
    /\ IF ~is_constant[pvname] /\ value # None
       THEN /\ p_served' = [p_served EXCEPT !["pva"][pvname] = value]
            /\ PVAServer_update_pv(pvname, value)
       ELSE UNCHANGED <<p_served, in_queue, cached_values, updPc, p_pending>>
    /\ UNCHANGED <<tvars, avars>>
    /\ UNCHANGED <<p_exit_event, p_read>>
    /\ UNCHANGED <<p_serve, p_ext_put, p_shutdown_event, p_resources>>
    /\ UNCHANGED <<out_queue, running_indicator, p_input_variables, pPc,
                   coordPc, coordMsg, auth>>

\* self._providers after PVAServer.setup_server: a SharedPV for a variable
\* to serve, None for an output hosted externally, and no entry for an input
\* hosted externally (it gets a monitor instead).
PVAProvider(name) ==
    IF p_serve[name] THEN "SharedPV"
    ELSE IF name \in Outputs THEN "None" ELSE "KeyError"

\* PVAServer.update_pvs: the loop over the event's variables.  For a constant
\* input no value is computed, and the post that follows uses the value left
\* by the variable before it; with none before it the name is unbound and
\* the process stops on the error.  The provider is looked up for every
\* variable: a SharedPV is posted to, a provider of None makes the adapter
\* put the value to the external PV (put_ok tells whether the put succeeds;
\* anything raised in it sets exit_event and shutdown_event), a missing
\* entry is a KeyError.
RECURSIVE PVAServer_update_pvs(_, _, _, _, _)
PVAServer_update_pvs(changes, i, carry, state, put_ok) ==
    IF i > Len(changes) \/ state.crashed THEN state
    ELSE LET variable == changes[i]
             skip == variable.name \in Inputs /\ is_constant[variable.name]
             value == IF skip THEN carry
                      ELSE [bound |-> TRUE, value |-> variable.value]
             output_provider == PVAProvider(variable.name)
         IN IF output_provider = "KeyError"
            THEN [state EXCEPT !.crashed = TRUE]
            ELSE IF output_provider = "SharedPV"
            THEN IF value.bound
                 THEN PVAServer_update_pvs(changes, i + 1, value,
                          [state EXCEPT !.served[variable.name] = value.value],
                          put_ok)
                 ELSE [state EXCEPT !.crashed = TRUE]
            ELSE IF value.bound /\ put_ok
                 THEN PVAServer_update_pvs(changes, i + 1, value,
                          [state EXCEPT !.ext_put = @ \cup {variable.name}],
                          put_ok)
                 ELSE PVAServer_update_pvs(changes, i + 1, value,
                          [state EXCEPT
                              !.ext_put = IF value.bound
                                          THEN @ \cup {variable.name} ELSE @,
                              !.exit = TRUE],
                          put_ok)

\* PVAServer.run, one turn of the loop with an event in the out queue:
\* update_pvs, then the cached values are sent if the model is not running.
PVAServer_run ==
    /\ pPc["pva"] = "run"
    /\ ~p_shutdown_event["pva"]
    /\ Len(in_queue) < MaxPQueue
    /\ out_queue["pva"] # <<>>
    /\ out_queue' = [out_queue EXCEPT !["pva"] = Tail(out_queue["pva"])]
    /\ \E put_ok \in BOOLEAN :
       LET after == PVAServer_update_pvs(Head(out_queue["pva"]).changes, 1,
                        [bound |-> FALSE, value |-> None],
                        [served |-> p_served["pva"], crashed |-> FALSE,
                         ext_put |-> p_ext_put["pva"], exit |-> FALSE],
                        put_ok)
       IN /\ p_served' = [p_served EXCEPT !["pva"] = after.served]
          /\ p_ext_put' = [p_ext_put EXCEPT !["pva"] = after.ext_put]
          /\ p_exit_event' = [p_exit_event EXCEPT !["pva"] = @ \/ after.exit]
          /\ p_shutdown_event' = [p_shutdown_event EXCEPT
                                     !["pva"] = @ \/ after.exit]
          /\ IF after.crashed
             THEN /\ pPc' = [pPc EXCEPT !["pva"] = "crashed"]
                  /\ UNCHANGED <<in_queue, p_pending>>
             ELSE /\ UNCHANGED pPc
                  /\ IF cached_values["pva"] # EmptyMap /\ ~running_indicator
                     THEN /\ in_queue' = Append(in_queue,
                                 [protocol |-> "pva", key |-> "vars",
                                  changes |-> cached_values["pva"]])
                          /\ p_pending' = [p_pending EXCEPT !["pva"] = {}]
                     ELSE UNCHANGED <<in_queue, p_pending>>
    /\ UNCHANGED <<tvars, avars>>
    /\ UNCHANGED <<p_read, p_serve, p_resources>>
    /\ UNCHANGED <<running_indicator, cached_values, p_input_variables,
                   pWrites, pLastWrite, coordPc, coordMsg, auth, updPc>>

\* ---- the coordinator the adapters are written against
\* Its code is not part of the sources; it follows the design document: an
\* update is dequeued, the flag is set and the changes are merged (a known
\* constant keeps its value); then the changed inputs go to the adapters of
\* the other protocols, the model is evaluated, the outputs go to every
\* adapter and the flag is cleared.
Coordinator_get ==
    /\ coordPc = "idle"
    /\ in_queue # <<>>
    /\ coordMsg' = Head(in_queue)
    /\ in_queue' = Tail(in_queue)
    /\ running_indicator' = TRUE
    /\ auth' = [n \in Names |->
                  IF /\ n \in DOMAIN Head(in_queue).changes
                     /\ (auth[n] = None \/ ~is_constant[n])
                  THEN Head(in_queue).changes[n]
                  ELSE auth[n]]
    /\ coordPc' = "publish"
    /\ UNCHANGED <<tvars, avars>>
    /\ UNCHANGED <<p_exit_event, p_read>>
    /\ UNCHANGED <<p_serve, p_ext_put, p_shutdown_event, p_pending, p_resources>>
    /\ UNCHANGED <<out_queue, cached_values, p_input_variables, p_served,
                   pPc, pWrites, pLastWrite, updPc>>

InputOrder == <<"x", "k">>
\* The entries of an event: the variables of order that are in names.
EventChanges(order, names, values) ==
    LET keep == SelectSeq(order, LAMBDA n : n \in names)
    IN [i \in 1..Len(keep) |-> [name |-> keep[i], value |-> values[keep[i]]]]

Coordinator_publish ==
    /\ coordPc = "publish"
    /\ \A p \in Protocols : Len(out_queue[p]) < MaxPQueue
    /\ LET outs == [o \in Outputs |-> 2 * auth[InputOf[o]]]
           inputEvent == [kind |-> "input",
                          changes |-> EventChanges(InputOrder,
                                          DOMAIN coordMsg.changes, auth)]
           outputEvent == [kind |-> "output",
                           changes |-> EventChanges(OutputOrder, Outputs, outs)]
       IN /\ auth' = [n \in Names |-> IF n \in Outputs THEN outs[n] ELSE auth[n]]
          /\ out_queue' = [p \in Protocols |->
                 IF p = coordMsg.protocol
                 THEN Append(out_queue[p], outputEvent)
                 ELSE Append(Append(out_queue[p], inputEvent), outputEvent)]
    /\ running_indicator' = FALSE
    /\ coordPc' = "idle"
    /\ coordMsg' = NoMsg
    /\ UNCHANGED <<tvars, avars>>
    /\ UNCHANGED <<p_exit_event, p_read>>
    /\ UNCHANGED <<p_serve, p_ext_put, p_shutdown_event, p_pending, p_resources>>
    /\ UNCHANGED <<in_queue, cached_values, p_input_variables, p_served, pPc,
                   pWrites, pLastWrite, updPc>>

NextP ==
    \/ CAServer_setup_server(NoRead)
    \/ CAServer_setup_outputs
    \/ \E pvname \in Names \cup UnknownPVs, value \in PWriteValues :
          CAServer_CADriver_write(pvname, value)
    \/ CAServer_update_pv_put
    \/ CAServer_run
    \/ PVAServer_setup_server(NoRead)
    \/ PVAServer_setup_outputs
    \/ \E pvname \in Inputs, value \in PWriteValues : PVAServer_PVAccessInputHandler_put(pvname, value)
    \/ PVAServer_update_pv_put
    \/ PVAServer_run
    \/ Coordinator_get
    \/ Coordinator_publish

InitP == TNotConstructed /\ PInit /\ AInit

SpecP == InitP /\ [][NextP]_vars

\* The coordinator's steps.
Coordinator_process ==
    \/ Coordinator_get
    \/ Coordinator_publish

\* The steps of the CAServer process that need no client: startup and the
\* run loop.
CAServer_loop ==
    \/ CAServer_setup_server(NoRead)
    \/ CAServer_setup_outputs
    \/ CAServer_run

\* The steps of the PVAServer process that need no client.
PVAServer_loop ==
    \/ PVAServer_setup_server(NoRead)
    \/ PVAServer_setup_outputs
    \/ PVAServer_run

\* The process-based adapters with every process scheduled: the adapters'
\* loops poll their queues, the coordinator serves the inbound queue and a
\* write handler that has started runs to its end.  Clients are free to
\* stop writing.
SpecF ==
    /\ InitP
    /\ [][NextP]_vars
    /\ WF_vars(CAServer_loop)
    /\ WF_vars(PVAServer_loop)
    /\ WF_vars(Coordinator_process)
    /\ WF_vars(CAServer_update_pv_put)
    /\ WF_vars(PVAServer_update_pv_put)

\* The adapters started with the input x hosted externally (serve = False in
\* its routing entry): startup with the read of the external PV, the
\* handshake with the coordinator, and the run loops.
NextM ==
    \/ \E read \in ExternalReads \cup {NoRead} : CAServer_setup_server(read)
    \/ CAServer_setup_outputs
    \/ CAServer_run
    \/ \E read \in ExternalReads \cup {NoRead} : PVAServer_setup_server(read)
    \/ PVAServer_setup_outputs
    \/ PVAServer_run
    \/ Coordinator_get
    \/ Coordinator_publish

\* Routing entries with a variable hosted externally: the input x, the
\* output y, or both.
MirrorConfigs ==
    {[n \in Names |-> n \notin ext] : ext \in {{"x"}, {"y"}, {"x", "y"}}}

InitM ==
    /\ AInit
    /\ TNotConstructed
    /\ PInitRest
    /\ p_serve \in MirrorConfigs

SpecM == InitM /\ [][NextM]_vars

\* The adapters under shutdown(): startup, the handshake with a coordinator
\* that may or may not answer, the run loops, client puts over pvAccess, and
\* shutdown() called on either adapter at any moment.
NextS ==
    \/ \E pvname \in Inputs, value \in PWriteValues :
          PVAServer_PVAccessInputHandler_put(pvname, value)
    \/ PVAServer_update_pv_put
    \/ CAServer_setup_server(NoRead)
    \/ CAServer_setup_outputs
    \/ CAServer_run
    \/ CAServer_run_exit
    \/ CAServer_shutdown
    \/ PVAServer_setup_server(NoRead)
    \/ PVAServer_setup_outputs
    \/ PVAServer_setup_shutdown
    \/ PVAServer_run
    \/ PVAServer_run_exit
    \/ PVAServer_shutdown
    \/ Coordinator_get
    \/ Coordinator_publish

\* The steps of each adapter process.
CAServer_process ==
    \/ CAServer_setup_server(NoRead)
    \/ CAServer_setup_outputs
    \/ CAServer_run
    \/ CAServer_run_exit

PVAServer_process ==
    \/ PVAServer_update_pv_put
    \/ PVAServer_setup_server(NoRead)
    \/ PVAServer_setup_outputs
    \/ PVAServer_setup_shutdown
    \/ PVAServer_run
    \/ PVAServer_run_exit

\* Each adapter is a process of its own and keeps taking steps while it has
\* one to take; nothing is assumed of the coordinator.
SpecS ==
    /\ InitP
    /\ [][NextS]_vars
    /\ WF_vars(CAServer_process)
    /\ WF_vars(PVAServer_process)

\* The process-based adapters have not been started.
NotStartedP == \A p \in Protocols : pPc[p] = "init"

\* Write handling of both server variants while the coordinator consumes
\* its inbound queue or not: the thread-based Server's add_to_comm_queue
\* called from the Channel Access and the pvAccess thread, or the
\* process-based CAServer's write handler with update_pv.  One variant runs
\* at a time.
NextA ==
    \/ \E c \in Callers : NotStartedP /\ add_to_comm_queue_call(c)
    \/ \E c \in Callers : add_to_comm_queue_full(c)
    \/ \E c \in Callers : add_to_comm_queue_drain(c)
    \/ \E c \in Callers : add_to_comm_queue_put(c)
    \/ comm_queue_get
    \/ comm_queue_task_done
    \/ wq.calls = 0 /\ CAServer_setup_server(NoRead)
    \/ CAServer_setup_outputs
    \/ \E pvname \in Names \cup UnknownPVs, value \in PWriteValues :
          CAServer_CADriver_write(pvname, value)
    \/ CAServer_update_pv_put
    \/ CAServer_run
    \/ Coordinator_get
    \/ Coordinator_publish

\* The module-level comm_queue of epics_server.py with no Server started,
\* and the CAServer before run().
InitA ==
    /\ TInit
    /\ input_variables = [v \in Inputs |-> None]
    /\ PInit
    /\ AInit

\* The thread of a write handler runs on; nothing is assumed of the
\* coordinator.
SpecA ==
    /\ InitA
    /\ [][NextA]_vars
    /\ \A c \in Callers : WF_vars(add_to_comm_queue_steps(c))
    /\ WF_vars(CAServer_update_pv_put)

\* ------------------------------------- Controller.put_image (client side)
\* Python's truth test of a number or None, as in "if x_min:".
Truthy(v) == v # None /\ v # 0

\* Whether put_image sends a put for a field, protocol "ca": the array when
\* "image_array is not None", a bound when "if x_min:" (and alike) holds.
PutImageSends(field, value) ==
    IF field = "ArrayData_RBV" THEN value # None ELSE Truthy(value)

\* Controller.put_image on a served, non-constant input image, followed by
\* the driver's handling of each put: CADriver.write finds the parent
\* variable of the field PV, an input that is not constant, and sets the
\* parameter.
Controller_put_image(args) ==
    /\ img.pc \in {"served", "put"}
    /\ img' = [pc |-> "put",
               served |-> [f \in ImageFields |->
                              IF PutImageSends(f, args[f]) THEN args[f]
                              ELSE img.served[f]],
               args |-> args]
    /\ UNCHANGED <<tvars, pvars, wq>>

\* The image as the server may serve it before the call.
ImageInits ==
    {[pc |-> "served", served |-> sv, args |-> [f \in ImageFields |-> None]] :
        sv \in {f \in [ImageFields -> ImageValues \cup BoundValues] :
                   /\ f["ArrayData_RBV"] \in ImageValues
                   /\ \A b \in BoundFields : f[b] \in BoundValues}}

\* put_image called with every given attribute.
PutImageArgs ==
    {a \in [ImageFields -> ImageValues \cup BoundValues] :
        /\ a["ArrayData_RBV"] \in ImageValues
        /\ \A b \in BoundFields : a[b] \in BoundValues}

NextI == \E args \in PutImageArgs : Controller_put_image(args)

InitI ==
    /\ TInit
    /\ input_variables = [v \in Inputs |-> None]
    /\ PInit
    /\ WqInit
    /\ img \in ImageInits

SpecI == InitI /\ [][NextI]_vars

Spec == Init /\ [][Next]_vars

\* ======================================================================
\* Claims about the thread-based Server (specification Spec)
\* ======================================================================

\* The events an adapter has been handed: those waiting in its outbound queue
\* and the one it is publishing.
QueueOf(p) == IF p = "ca" THEN ca_queue ELSE pva_queue
EventsOf(p) ==
    {QueueOf(p)[i] : i \in 1..Len(QueueOf(p))} \cup
    (IF adPc[p] = "set" THEN {adData[p]} ELSE {})
Carries(e, name) == \E j \in 1..Len(e.names) : e.names[j] = name

\* C1: Echo suppression.  No event handed to adapter P for an update that P
\* itself originated carries the variable of that update: the comm thread
\* sends an originated input back to no adapter, least of all to P.
C1_EchoSuppression ==
    \A p \in Protocols : \A e \in EventsOf(p) :
        e.origin = p => ~Carries(e, e.pvname)

\* Witness of C1: the event of a cycle triggered by a Channel Access write
\* sits in the Channel Access thread's own queue.
C1_Witness ==
    \E i \in 1..Len(ca_queue) :
        ca_queue[i].origin = "ca" /\ ca_queue[i].pvname \in Inputs

\* Everything has settled: the comm thread waits on an empty comm_queue and
\* both adapters have published all they were handed.
Quiescent ==
    /\ srvPc = "started"
    /\ commPc = "get"
    /\ comm_queue = <<>> /\ ca_queue = <<>> /\ pva_queue = <<>>
    /\ \A p \in Protocols : adPc[p] = "loop"

\* C2: Cross-sync.  Once an accepted write has been processed and every
\* queue has drained, the replica of each input on the other protocol shows
\* the written value: both protocols serve the authoritative value.
C2_CrossSync ==
    Quiescent =>
        \A v \in Inputs : \A p \in Protocols : served[p][v] = input_variables[v]

\* C3: Constant immutability in the coordinator.  The merge step of the comm
\* thread never changes the value of a constant input.
C3_ConstantImmutable ==
    [][(commPc = "get" /\ commPc' = "evaluate") =>
          \A v \in Constants : input_variables'[v] = input_variables[v]]_vars

C6_AtomicOutputEvent ==
    \A p \in Protocols :
        adPc[p] = "loop" =>
            \A o1, o2 \in Outputs : adRead[p][o1] = adRead[p][o2]

\* C7: Exclusive ownership.  The input variable objects the comm thread
\* evaluates are changed by the constructor and by the comm thread's merge
\* step only, never by an adapter handling a client write.
C7_ExclusiveOwnership ==
    [][input_variables' # input_variables =>
          (srvPc = "declared" \/ (commPc = "get" /\ commPc' = "evaluate"))]_vars

\* C8: Fail-fast on model error.  When evaluate has raised in the comm thread
\* the process-wide exit signal is set.
C8_FailFast == evalRaised => exit_event

\* C9: State unchanged on model error.  When evaluate has raised, the input
\* the triggering update targets holds the value it had before the write.
C9_StateUnchangedOnError ==
    commPc = "dead" => input_variables[data.pvname] = data.prev

\* C10: One evaluation per batch.  The comm thread has called evaluate once
\* for every message it dequeued, the one just dequeued excepted, and never
\* without a message.
C10_OneEvalPerBatch ==
    /\ nEval <= nDeq
    /\ commPc = "evaluate" => nDeq = nEval + 1
    /\ commPc # "evaluate" => nDeq = nEval

\* Witness of C10: two updates dequeued and evaluated, the comm thread waits.
C10_Witness == commPc = "get" /\ nDeq = 2 /\ nEval = 2

\* C11: Publish order within a cycle.  The comm thread hands each adapter
\* one event per cycle; for the adapter that did not originate the update,
\* what it is handed first in the cycle carries the written input, so that
\* it has the input before the cycle's outputs.
C11_InputBeforeOutput ==
    [][\A p \in Protocols :
          (/\ Len(QueueOf(p)') = Len(QueueOf(p)) + 1
           /\ predicted_output.origin \in Protocols \ {p})
          => Carries(QueueOf(p)'[Len(QueueOf(p)')], predicted_output.pvname)]_vars

\* C13: The Busy flag tracks the coordinator cycle.  The running indicator is
\* true while the comm thread holds a dequeued update (merge, evaluate,
\* publish) and false whenever it waits on the comm queue again.
C13_BusyTracksCycle ==
    /\ commPc \in {"evaluate", "put_pva", "put_ca"} => running_indicator
    /\ commPc = "get" => ~running_indicator

\* C15: Outbound queue-full is isolated to one adapter.  With both adapters
\* started, a cycle of the comm thread hands its event to every outbound
\* queue that has room: a full pva_queue costs the Channel Access thread
\* nothing, and a full ca_queue costs the pvAccess thread nothing.
C15_QueueFullIsolated ==
    [][(srvPc = "started" /\ adPc["pva"] # "off") =>
          /\ (commPc \in {"put_pva", "put_ca"} /\ commPc' = "get"
                 /\ Len(ca_queue) < CaQueueMax)
              => ca_queue' = Append(ca_queue, predicted_output)
          /\ (commPc = "put_pva" /\ commPc' # "put_pva"
                 /\ Len(pva_queue) < PvaQueueMax)
              => pva_queue' = Append(pva_queue, predicted_output)]_vars

\* C16: Single-protocol serving stays live.  Started with protocols = ["ca"]
\* alone, every cycle the comm thread completes puts its event on ca_queue,
\* as long as ca_queue itself has room, however many cycles came before.
C16_SingleProtocolLive ==
    [][(srvPc = "started" /\ adPc["pva"] = "off"
          /\ commPc \in {"put_pva", "put_ca"} /\ commPc' = "get"
          /\ Len(ca_queue) < CaQueueMax)
       => ca_queue' = Append(ca_queue, predicted_output)]_vars
\* C24: Server.stop() stops the server.  stop() never ends in an error, and
\* once it has returned the comm thread and every started adapter thread
\* have left their loops.
C24_StopStops ==
    /\ [](srvPc # "stop_raised")
    /\ (srvPc = "stopped") ~>
          (commPc = "exited" /\ \A p \in Protocols : adPc[p] \in {"off", "exited"})

\* ======================================================================
\* Claims about the process-based adapters (specification SpecP)
\* ======================================================================

\* C4: A client write to a constant input, over Channel Access or pvAccess,
\* leaves every served value as it was and puts nothing on the inbound
\* queue, nor in the adapter's cache from where it could be sent later.
C4_ConstantWriteRejected ==
    [][(pWrites' = pWrites + 1 /\ pLastWrite'.pvname \in Constants) =>
          /\ p_served' = p_served
          /\ in_queue' = in_queue
          /\ cached_values' = cached_values]_vars

\* Witness of C4: a client has written a value to the constant input while
\* the adapter was serving and the model was not running, when a write to
\* another input would have been forwarded at once.
C4_Witness ==
    /\ pWrites >= 1
    /\ pLastWrite.pvname \in Constants
    /\ pLastWrite.value \in WriteValues
    /\ pLastWrite.protocol = "ca"
    /\ ~running_indicator
    /\ pPc["ca"] = "run"

\* C12: Busy-flag coalescing.  No adapter puts the message of a client write
\* on the inbound queue while the running indicator is true: update_pv sends
\* its cache only when the model is not running, whatever the interleaving
\* of its reading the indicator and the coordinator's setting it.
C12_NoEnqueueWhileBusy ==
    [][\A p \in Protocols :
          (updPc[p] = "put" /\ updPc'[p] = "idle" /\ Len(in_queue') > Len(in_queue))
          => ~running_indicator]_vars

\* C14: Adapters never write the Busy flag.  A step that changes the running
\* indicator is a step of the coordinator; no step of the Channel Access or
\* pvAccess adapter (setup, write handling, update_pv, run) changes it.
C14_AdaptersNeverWriteFlag ==
    [][running_indicator' # running_indicator => coordPc' # coordPc]_vars

\* Witness of C14: an adapter has handled a client write while the model
\* was running, reading the indicator and keeping the write in its cache.
C14_Witness ==
    /\ running_indicator
    /\ \E p \in Protocols :
          /\ pPc[p] = "run"
          /\ updPc[p] = "idle"
          /\ cached_values[p] # EmptyMap

\* C17: The pvAccess adapter forwards the written value.  When a client has
\* put v to a non-constant input X and update_pv read the indicator as
\* false, the message update_pv puts on the inbound queue is tagged "pva"
\* and carries X with the value v.
C17_PvaForwardsValue ==
    [][(updPc["pva"] = "put" /\ updPc'["pva"] = "idle"
          /\ pLastWrite.protocol = "pva")
       => LET msg == in_queue'[Len(in_queue')] IN
          /\ msg.protocol = "pva"
          /\ pLastWrite.pvname \in DOMAIN msg.changes
          /\ msg.changes[pLastWrite.pvname] = pLastWrite.value]_vars

\* C18: Uniform inbound message shape.  All messages on the inbound queue,
\* initial input messages and client writes of either adapter alike, hold
\* their changes under one and the same key.
C18_UniformShape ==
    \A i, j \in 1..Len(in_queue) : in_queue[i].key = in_queue[j].key

\* C19: Rejected writes change nothing.  A Channel Access write to an output
\* variable, to a PV of no routing entry, or of the value None makes
\* CADriver.write return False and changes no served value, nothing in the
\* adapter's cache and nothing on the inbound queue.
C19_RejectedWriteNoEffect ==
    [][(/\ pWrites' = pWrites + 1
        /\ pLastWrite'.protocol = "ca"
        /\ \/ pLastWrite'.pvname \in Outputs
           \/ pLastWrite'.pvname \in UnknownPVs
           \/ pLastWrite'.value = None)
       => /\ pLastWrite'.ret = "False"
          /\ p_served' = p_served
          /\ cached_values' = cached_values
          /\ in_queue' = in_queue
          /\ updPc' = updPc]_vars

\* Witness of C19: a write of None to the writable input x has been handled
\* by the serving driver while the model was not running.
C19_Witness ==
    /\ pLastWrite.protocol = "ca"
    /\ pLastWrite.pvname = "x"
    /\ pLastWrite.value = None
    /\ pPc["ca"] = "run"
    /\ ~running_indicator

\* C20: Mirrored-variable startup read.  For the externally hosted input x,
\* once an adapter is past the read, its exit_event is set exactly if the
\* read failed, and after a read that succeeded, whatever the value read,
\* the variable holds that value and startup has gone on.
C20_StartupRead ==
    \A p \in Protocols :
        (pPc[p] # "init" /\ p_read[p].external) =>
            /\ p_exit_event[p] <=> ~p_read[p].ok
            /\ p_read[p].ok => p_input_variables[p]["x"] = p_read[p].value

\* C21: Externally hosted variables are never written.  When the pvAccess
\* adapter, in its run loop, takes an event that carries a variable whose
\* routing entry has serve = False, it puts nothing to an external PV and
\* stays in its loop.
C21_ExternalNeverWritten ==
    [][(/\ pPc["pva"] = "run"
        /\ out_queue["pva"] # <<>>
        /\ out_queue'["pva"] = Tail(out_queue["pva"])
        /\ \E i \in 1..Len(Head(out_queue["pva"]).changes) :
               ~p_serve[Head(out_queue["pva"]).changes[i].name])
       => /\ p_ext_put'["pva"] = p_ext_put["pva"]
          /\ pPc'["pva"] = "run"
          /\ p_exit_event'["pva"] = p_exit_event["pva"]]_vars

C23_CaTerminates ==
    p_shutdown_event["ca"] ~>
        (pPc["ca"] = "stopped" /\ p_resources["ca"] = {})

\* C25: Write handling never blocks on the coordinator.  A call of
\* add_to_comm_queue drains the queue at most once (at most maxsize
\* get_nowait calls), puts at most once, raises nothing and returns, and
\* the update_pv of the Channel Access adapter gets its message on the in
\* queue, whether or not the coordinator ever takes anything.
C25_WriteNeverBlocks ==
    /\ [](/\ ~wq.raised
          /\ \A c \in Callers : /\ wq.drains[c] <= 1
                                 /\ wq.gets[c] <= CommQueueMax
                                 /\ wq.puts[c] <= 1)
    /\ \A c \in Callers : (wq.pc[c] # "idle") ~> (wq.pc[c] = "idle")
    /\ (updPc["ca"] = "put") ~> (updPc["ca"] = "idle")

\* Witness of C25: a call that found the queue full has drained it and put
\* its item, and has returned.
C25_Witness ==
    \E c \in Callers :
        /\ wq.pc[c] = "idle"
        /\ wq.drains[c] = 1
        /\ wq.gets[c] = CommQueueMax
        /\ wq.puts[c] = 1
        /\ wq.comm = "get"
        /\ Len(comm_queue) = 1

\* C26: Controller.put_image over Channel Access sets every given
\* attribute.  After put_image with an array and the four bounds, the served
\* array and bounds are the given ones, whatever was served before.
C26_PutImageSetsAll ==
    img.pc = "put" => \A f \in ImageFields : img.served[f] = img.args[f]

\* A queue has reached the length up to which the queues are explored.
AtQueueBound ==
    \/ Len(in_queue) >= MaxPQueue
    \/ \E p \in Protocols : Len(out_queue[p]) >= MaxPQueue

\* C27: no stranded write.  A client write that a running adapter accepted
\* and holds in its cache (because the Busy flag was true when update_pv read
\* it) is eventually put on the inbound queue, whether or not another client
\* write arrives at that adapter.  Behaviours that stay at the explored queue
\* length for ever are left out.
C27_NoStrandedWrite ==
    \A p \in Protocols :
        (p_pending[p] # {} /\ updPc[p] = "idle" /\ pPc[p] = "run")
            ~> (p_pending[p] = {} \/ []AtQueueBound)

\* The same property for the PVAServer alone, whose run loop flushes the
\* cache after each outbound event.
C27_PvaFlushes ==
    (p_pending["pva"] # {} /\ updPc["pva"] = "idle" /\ pPc["pva"] = "run")
        ~> (p_pending["pva"] = {} \/ []AtQueueBound)


\* After the finitely many client writes the inbound queue stays empty from
\* some moment on (behaviours that stay at the explored queue length left
\* out).
C28_FinitelyManyMessages == <>[](in_queue = <<>> \/ AtQueueBound)

\* C28: each cached write is delivered exactly once.  Whenever a running
\* adapter puts its cache on the inbound queue the cache is empty afterwards,
\* and a finite burst of client writes causes only finitely many inbound
\* messages.
C28_DeliveredOnce ==
    /\ [][\A p \in Protocols :
            (/\ pPc[p] = "run"
             /\ Len(in_queue') = Len(in_queue) + 1
             /\ in_queue'[Len(in_queue')].protocol = p)
            => cached_values'[p] = EmptyMap]_vars
    /\ C28_FinitelyManyMessages


\* C29: eventual consistency of the thread-based Server.  When the comm
\* thread waits on an empty comm_queue after an evaluation, every started
\* adapter serves, for every input, the value of the last model evaluation,
\* also after add_to_comm_queue has discarded pending updates.
C29_EventualConsistency ==
    (srvPc = "started" /\ commPc = "get" /\ comm_queue = <<>> /\ nEval >= 1)
        => \A p \in Protocols :
              adPc[p] = "loop" =>
                  \A v \in Inputs : served[p][v] = lastEvalIn[v]


\* C30: the startup handshake is order-independent.  Whenever an adapter
\* leaves the wait of setup_server, it goes on to its run loop with every
\* output variable seeded with a value of a model-output event, whichever
\* adapter's initial message the coordinator served first.
C30_HandshakeOrderIndependent ==
    [][\A p \in Protocols :
          (pPc[p] = "wait" /\ pPc'[p] # "wait")
          => /\ pPc'[p] = "run"
             /\ \A o \in Outputs : p_served'[p][o] # None]_vars

\* The same for the PVAServer alone.
C30_PvaSeeded ==
    [][(pPc["pva"] = "wait" /\ pPc'["pva"] # "wait")
          => \A o \in Outputs : p_served'["pva"][o] # None]_vars

\* ---------------------------------------------------------------- C31
\* An event of the out queue holds a constant input variable.
HoldsConstant(event) ==
    \E i \in 1..Len(event.changes) : event.changes[i].name \in Constants

\* Adapter p takes an event that holds a constant in its run loop.
PublishesConstant(p) ==
    /\ pPc[p] = "run"
    /\ out_queue[p] # <<>>
    /\ out_queue'[p] = Tail(out_queue[p])
    /\ HoldsConstant(Head(out_queue[p]))

\* C31: publishing skips constants.  When an adapter processes an outbound
\* event that holds a constant input variable, the constant's PV keeps the
\* value it has (nothing is posted to it, in particular no value of another
\* variable) and update_pvs does not fail: the adapter stays in its run loop.
C31_PublishSkipsConstants ==
    [][\A p \in Protocols :
          PublishesConstant(p) =>
              /\ pPc'[p] = "run"
              /\ \A c \in Constants : p_served'[p][c] = p_served[p][c]]_vars

\* C31 for the Channel Access adapter alone (CADriver.update_pvs).
C31_CaSkipsConstants ==
    [][PublishesConstant("ca") =>
          /\ pPc'["ca"] = "run"
          /\ \A c \in Constants : p_served'["ca"][c] = p_served["ca"][c]]_vars

\* ======================================================================
\* An input image served by the process-based CAServer
\* ======================================================================
\* The declaration gains a non-constant input image "im", served over
\* Channel Access under the PV name "im"; img holds the values of its child
\* PVs.

\* build_pvdb: the name of a child PV, f"{pvname}:{child}".
ChildPV == [f \in ImageFields |-> "im:" \o f]

\* build_pvdb: child_to_parent_map, from the child PV to the variable name.
child_to_parent_map == [pv \in {ChildPV[f] : f \in ImageFields} |-> "im"]

\* CAServer.__init__: _pvname_to_varname_map, one entry for each entry of
\* epics_config (the variables' own PV names, no child PV).
pvname_to_varname_map == [pv \in Names \cup {"im"} |-> pv]

\* The image as build_pvdb serves it at startup.
ImageDeclared ==
    [pc |-> "served",
     served |-> [f \in ImageFields |-> IF f = "ArrayData_RBV" THEN 7 ELSE 0],
     args |-> [f \in ImageFields |-> None]]

\* Values a client writes to a child PV.
ChildWriteValues == {8, 5, None}

\* CADriver.write of epics_ca_server.py for a child PV of the image:
\* model_var_name is the parent, taken from _child_to_parent_map; a value of
\* None returns False; the parent is an input and not constant, so setParam
\* and updatePVs set the child PV, and self.server.update_pv is called with
\* the child's PV name.  CAServer.update_pv looks that name up in
\* _pvname_to_varname_map, which holds no child PV: the lookup raises
\* KeyError before anything is cached.
CAServer_CADriver_write_child(field, value) ==
    LET pvname == ChildPV[field]
        model_var_name == child_to_parent_map[pvname]
    IN
    /\ pPc["ca"] = "run"
    /\ updPc["ca"] = "idle"
    /\ img.pc = "served"
    /\ Len(in_queue) < MaxPQueue
    /\ pWrites < MaxWrites
    /\ pWrites' = pWrites + 1
    /\ IF value = None
       THEN /\ pLastWrite' = [protocol |-> "ca", pvname |-> pvname,
                              value |-> value, ret |-> "False"]
            /\ UNCHANGED <<img, in_queue, cached_values, updPc, p_pending>>
       ELSE /\ img' = [img EXCEPT !.served[field] = value]
            /\ IF pvname \in DOMAIN pvname_to_varname_map
               THEN /\ CAServer_update_pv(pvname_to_varname_map[pvname], value)
                    /\ pLastWrite' = [protocol |-> "ca", pvname |-> pvname,
                                      value |-> value, ret |-> "True"]
               ELSE /\ pLastWrite' = [protocol |-> "ca", pvname |-> pvname,
                                      value |-> value, ret |-> "KeyError"]
                    /\ UNCHANGED <<in_queue, cached_values, updPc, p_pending>>
    /\ UNCHANGED <<tvars, wq>>
    /\ UNCHANGED <<p_exit_event, p_read>>
    /\ UNCHANGED <<p_serve, p_ext_put, p_shutdown_event, p_resources>>
    /\ UNCHANGED <<out_queue, running_indicator, p_input_variables, p_served,
                   pPc, coordPc, coordMsg, auth>>

\* The CAServer with the image, its clients and the coordinator.
NextW ==
    \/ CAServer_setup_server(NoRead)
    \/ CAServer_setup_outputs
    \/ \E value \in WriteValues : CAServer_CADriver_write("x", value)
    \/ \E field \in ImageFields, value \in ChildWriteValues :
          CAServer_CADriver_write_child(field, value)
    \/ CAServer_update_pv_put
    \/ CAServer_run
    \/ Coordinator_get
    \/ Coordinator_publish

InitW == TNotConstructed /\ PInit /\ WqInit /\ img = ImageDeclared

SpecW == InitW /\ [][NextW]_vars

\* ---------------------------------------------------------------- C32
\* The Channel Access driver accepts a write on a child PV of the image.
AcceptsChildWrite(field) ==
    /\ pWrites' = pWrites + 1
    /\ pLastWrite'.pvname = ChildPV[field]
    /\ pLastWrite'.value # None

\* C32: sub-field writes reach the coordinator.  A Channel Access write
\* accepted on a child PV of the non-constant input image is handled without
\* an error and is forwarded as a change of the parent variable: the parent
\* is among the changes the adapter sends or holds for the coordinator.
C32_SubFieldWriteForwarded ==
    [][\A field \in ImageFields :
          AcceptsChildWrite(field) =>
              /\ pLastWrite'.ret = "True"
              /\ "im" \in p_pending'["ca"]]_vars

\* What the code does instead: a write on a child PV sets the child PV and
\* nothing of the image ever reaches the cache or the inbound queue.
C32_ImageNeverForwarded ==
    /\ "im" \notin DOMAIN cached_values["ca"]
    /\ \A i \in 1..Len(in_queue) : "im" \notin DOMAIN in_queue[i].changes
    /\ (pLastWrite.pvname \in DOMAIN child_to_parent_map /\ pLastWrite.value # None)
           => pLastWrite.ret = "KeyError" /\ \E f \in ImageFields : img.served[f] = pLastWrite.value

\* ======================================================================
\* The client: Controller (client/controller.py)
\* ======================================================================
\* img holds the Controller and the server it talks to.  Over Channel
\* Access the declaration is a scalar "s" and an image "im", over pvAccess a
\* scalar "s" and an array "arr".  The seven child PVs of the image are
\* served by one server and connect and disconnect together: the registry
\* key "im:ArrayData_RBV" stands for them.
ImageChild == "im:ArrayData_RBV"

\* Keys of self._pvnames after Controller.__init__: the children of an
\* image, the name of a scalar or an array.  The name of an image is not a
\* key.
ControllerPvnames(protocol) ==
    IF protocol = "ca" THEN {"s", ImageChild} ELSE {"s", "arr"}

\* The server PV behind a registry key.
ServerPV == [key \in {"s", ImageChild, "arr"} |->
                IF key = ImageChild THEN "im" ELSE key]

\* What the server serves before any client write.
ServerStartup == [pv \in {"s", "im", "arr"} |->
                     IF pv = "s" THEN 1 ELSE IF pv = "im" THEN 7 ELSE 9]

\* DEFAULT_IMAGE_DATA, and the empty array get_array returns: objects, not
\* None.
DEFAULT_IMAGE_DATA == 50
EmptyArray == 0

NoCall == [op |-> "none", sent |-> 0, raised |-> "none", logged |-> FALSE,
           seq |-> 0]

\* Controller._register: a key already registered returns at once; else the
\* registry entry is created with value None, then the PV object or the
\* monitor is created from self._pvnames[pvname], a KeyError for a name
\* that is not a key (the entry stays).  Over pvAccess without auto_monitor
\* nothing is created.
Controller_register(c, key) ==
    IF key \in DOMAIN c.registry THEN [c |-> c, err |-> "none"]
    ELSE [c |-> [c EXCEPT !.registry = MapPut(@, key, None)],
          err |-> IF /\ c.protocol = "ca" \/ c.auto_monitor
                     /\ key \notin ControllerPvnames(c.protocol)
                  THEN "KeyError" ELSE "none"]

\* Controller.get: _register, then with auto_monitor the value of the
\* registry entry; without it a read of the server: context.get over
\* pvAccess (a KeyError for a name that is no key, a TimeoutError when the
\* server does not answer), pv.get(timeout=0.5) over Channel Access, None
\* when it fails.
Controller_get(c, key) ==
    LET r == Controller_register(c, key) IN
    IF r.err # "none" THEN [c |-> r.c, value |-> None, err |-> r.err]
    ELSE IF c.auto_monitor
         THEN [c |-> r.c, value |-> r.c.registry[key], err |-> "none"]
    ELSE IF c.protocol = "pva"
         THEN (IF key \notin ControllerPvnames("pva")
               THEN [c |-> r.c, value |-> None, err |-> "KeyError"]
               ELSE IF c.conn
               THEN [c |-> r.c, value |-> c.server[ServerPV[key]], err |-> "none"]
               ELSE [c |-> r.c, value |-> None, err |-> "TimeoutError"])
    ELSE [c |-> r.c,
          value |-> IF c.conn /\ key \in ControllerPvnames("ca")
                    THEN c.server[ServerPV[key]] ELSE None,
          err |-> "none"]

\* Controller.get_image over Channel Access: the image when every child
\* value is collected, DEFAULT_IMAGE_DATA otherwise.
Controller_get_image(c) ==
    LET r == Controller_get(c, ImageChild) IN
    [c |-> r.c,
     value |-> IF r.value # None THEN r.value ELSE DEFAULT_IMAGE_DATA,
     err |-> r.err]

\* Controller.get_array over pvAccess: the array when collected, an empty
\* array otherwise.
Controller_get_array(c) ==
    LET r == Controller_get(c, "arr") IN
    [c |-> r.c,
     value |-> IF r.value # None THEN r.value ELSE EmptyArray,
     err |-> r.err]

\* Mutant of Registered: put does not test the collected value.
Registered_NoTest(registered) == TRUE

\* The test "if registered is not None" of put, put_image and put_array.
Registered(registered) == registered # None

\* Controller.__init__: get_value, get_image or get_array for every
\* declared variable, which registers it.  An error raised by one of them
\* leaves no Controller.
Controller_init(protocol, auto_monitor) ==
    /\ img.pc = "new"
    /\ LET c0 == [pc |-> "controller", protocol |-> protocol,
                  auto_monitor |-> auto_monitor, conn |-> img.conn,
                  registry |-> EmptyMap, server |-> img.server,
                  last |-> NoCall]
           r1 == Controller_get(c0, "s")
           r2 == IF protocol = "ca" THEN Controller_get_image(r1.c)
                 ELSE Controller_get_array(r1.c)
       IN img' = IF r1.err # "none" \/ r2.err # "none"
                 THEN [pc |-> "failed", conn |-> img.conn, server |-> img.server]
                 ELSE r2.c
    /\ UNCHANGED <<tvars, pvars, wq>>

\* The server becomes reachable or unreachable.
Controller_server_connects(conn) ==
    /\ img.pc \in {"new", "controller"}
    /\ img.conn # conn
    /\ img' = [img EXCEPT !.conn = conn]
    /\ UNCHANGED <<tvars, pvars, wq>>

\* _ca_value_callback / _pva_value_callback with a value: the monitor of a
\* registered PV delivers the value served.
Controller_value_callback(key) ==
    /\ img.pc = "controller"
    /\ img.auto_monitor
    /\ img.conn
    /\ key \in DOMAIN img.registry \cap ControllerPvnames(img.protocol)
    /\ img.registry[key] # img.server[ServerPV[key]]
    /\ img' = [img EXCEPT !.registry[key] = img.server[ServerPV[key]]]
    /\ UNCHANGED <<tvars, pvars, wq>>

\* _ca_connection_callback with conn false / _pva_value_callback with a
\* Disconnected: the value of the registry entry is set to None.
Controller_connection_callback(key) ==
    /\ img.pc = "controller"
    /\ img.protocol = "ca" \/ img.auto_monitor
    /\ ~img.conn
    /\ key \in DOMAIN img.registry \cap ControllerPvnames(img.protocol)
    /\ img.registry[key] # None
    /\ img' = [img EXCEPT !.registry[key] = None]
    /\ UNCHANGED <<tvars, pvars, wq>>

\* Controller.put(pvname, value) on the scalar.
Controller_put(value) ==
    /\ img.pc = "controller"
    /\ LET r == Controller_get(img, "s")
           seq == 1 - img.last.seq
       IN img' =
          IF r.err # "none"
          THEN [r.c EXCEPT !.last = [op |-> "put", sent |-> 0, raised |-> r.err,
                                     logged |-> FALSE, seq |-> seq]]
          ELSE IF Registered(r.value)
          THEN [r.c EXCEPT
                  !.server["s"] = IF r.c.conn THEN value ELSE @,
                  !.last = [op |-> "put", sent |-> 1, raised |-> "none",
                            logged |-> FALSE, seq |-> seq]]
          ELSE [r.c EXCEPT !.last = [op |-> "put", sent |-> 0, raised |-> "none",
                                     logged |-> TRUE, seq |-> seq]]
    /\ UNCHANGED <<tvars, pvars, wq>>

\* Controller.put_image(pvname, image_array, x_min, x_max, y_min, y_max)
\* over Channel Access, from its first statement: _register with the name of
\* the image, get_image, the test of its result, then one put for each
\* attribute given.
Controller_put_image_call(args) ==
    /\ img.pc = "controller"
    /\ img.protocol = "ca"
    /\ LET r0 == Controller_register(img, "im")
           r == Controller_get_image(r0.c)
           seq == 1 - img.last.seq
           fields == {f \in ImageFields : PutImageSends(f, args[f])}
       IN img' =
          IF r0.err # "none"
          THEN [r0.c EXCEPT !.last = [op |-> "put_image", sent |-> 0,
                                      raised |-> r0.err, logged |-> FALSE,
                                      seq |-> seq]]
          ELSE IF Registered(r.value)
          THEN [r.c EXCEPT
                  !.server["im"] = IF r.c.conn /\ "ArrayData_RBV" \in fields
                                   THEN args["ArrayData_RBV"] ELSE @,
                  !.last = [op |-> "put_image", sent |-> Cardinality(fields),
                            raised |-> "none", logged |-> FALSE, seq |-> seq]]
          ELSE [r.c EXCEPT !.last = [op |-> "put_image", sent |-> 0,
                                     raised |-> "none", logged |-> TRUE,
                                     seq |-> seq]]
    /\ UNCHANGED <<tvars, pvars, wq>>

\* Controller.put_array(pvname, array) over pvAccess: _register, get_array,
\* the test of its result, then array is replaced by the value of the
\* registry entry and put.
Controller_put_array(array) ==
    /\ img.pc = "controller"
    /\ img.protocol = "pva"
    /\ LET r == Controller_get_array(img)
           seq == 1 - img.last.seq
           value == r.c.registry["arr"]
       IN img' =
          IF r.err # "none"
          THEN [r.c EXCEPT !.last = [op |-> "put_array", sent |-> 0,
                                     raised |-> r.err, logged |-> FALSE,
                                     seq |-> seq]]
          ELSE IF Registered(r.value)
          THEN [r.c EXCEPT
                  !.server["arr"] = IF r.c.conn /\ value # None THEN value ELSE @,
                  !.last = [op |-> "put_array", sent |-> 1, raised |-> "none",
                            logged |-> FALSE, seq |-> seq]]
          ELSE [r.c EXCEPT !.last = [op |-> "put_array", sent |-> 0,
                                     raised |-> "none", logged |-> TRUE,
                                     seq |-> seq]]
    /\ UNCHANGED <<tvars, pvars, wq>>

\* put_image with an array and the four bounds.
PutImageArgsC ==
    {a \in PutImageArgs : \A b \in BoundFields : a[b] = 5}

ArrayValues == {9, 6}

NextC ==
    \/ \E protocol \in Protocols, auto_monitor \in BOOLEAN :
          Controller_init(protocol, auto_monitor)
    \/ \E conn \in BOOLEAN : Controller_server_connects(conn)
    \/ \E key \in {"s", ImageChild, "arr"} : Controller_value_callback(key)
    \/ \E key \in {"s", ImageChild, "arr"} : Controller_connection_callback(key)
    \/ \E value \in WriteValues : Controller_put(value)
    \/ \E args \in PutImageArgsC : Controller_put_image_call(args)
    \/ \E array \in ArrayValues : Controller_put_array(array)

\* No Controller yet; the server is up or not.
InitC ==
    /\ TNotConstructed
    /\ PNotConstructed
    /\ WqInit
    /\ img \in {[pc |-> "new", conn |-> conn, server |-> ServerStartup] :
                   conn \in BOOLEAN}

SpecC == InitC /\ [][NextC]_vars

\* ---------------------------------------------------------------- C33
\* The value the Controller has collected for a key: with auto_monitor the
\* value of the registry entry (None when never connected or disconnected
\* since), without it what a read of the server gives now.
Collected(key) ==
    IF img.auto_monitor
    THEN (IF key \in DOMAIN img.registry THEN img.registry[key] ELSE None)
    ELSE (IF img.conn THEN img.server[ServerPV[key]] ELSE None)

\* A call of the operation op returns in this step.
Calls(op) ==
    /\ img.pc = "controller"
    /\ img'.last.seq # img.last.seq
    /\ img'.last.op = op

\* C33: Controller.put issues no write before a value has been collected.
\* put sends nothing to a PV whose collected value is None and exactly one
\* write otherwise.
C33_PutNeedsCollectedValue ==
    [][Calls("put") =>
          img'.last.sent = IF Collected("s") = None THEN 0 ELSE 1]_vars

\* put has returned without a write for a PV never collected, after a
\* disconnection, and with one write for a collected value.
C33_Witness ==
    /\ img.pc = "controller"
    /\ img.auto_monitor
    /\ img.last.op = "put"
    /\ img.last.sent = 0
    /\ img.last.logged
    /\ img.server["s"] \in WriteValues
    /\ ~img.conn

\* ---------------------------------------------------------------- C34
\* C34: Controller.put_image and Controller.put_array issue no write before
\* a value has been collected.  For an image or array PV whose collected
\* value is None the call sends nothing, raises no error and logs that no
\* initial value is set.
C34_PutImageNeedsCollectedValue ==
    [][/\ (Calls("put_image") /\ Collected(ImageChild) = None) =>
              /\ img'.last.sent = 0
              /\ img'.last.raised = "none"
              /\ img'.last.logged
       /\ (Calls("put_array") /\ Collected("arr") = None) =>
              /\ img'.last.sent = 0
              /\ img'.last.raised = "none"
              /\ img'.last.logged]_vars

\* C34, the writes alone and put_image alone: errors aside, put_image sends
\* nothing for an image not collected.
C34_PutImageSendsNothing ==
    [][(Calls("put_image") /\ Collected(ImageChild) = None) =>
          img'.last.sent = 0]_vars

\* C34, the writes alone and put_array alone.
C34_PutArraySendsNothing ==
    [][(Calls("put_array") /\ Collected("arr") = None) =>
          img'.last.sent = 0]_vars

\* ======================================================================
\* The adapters' write cache, statement by statement
\* ======================================================================
\* The threads of an adapter that touch self._cached_values: over Channel
\* Access the server thread (CADriver.write calls update_pv) and the
\* thread of the monitor callbacks (_monitor_callback); over pvAccess the
\* thread of the put handler (update_pv) and the process's main thread
\* (the flush of run).  In these runs updPc gives the position of each
\* thread, and wq holds the bookkeeping of the writes: ids[p], the accepted
\* writes held by the dict that is _cached_values of p now, and dup,
\* whether a write has gone out in two messages.  p_pending[p] holds the
\* accepted writes not yet gone out.
\*
\* multiprocessing.Queue.put appends the object to a buffer and a feeder
\* thread pickles it later: a message is live while it still refers to the
\* dict that is _cached_values and has not been pickled, and what is sent is
\* the content of the dict when it is pickled.
CacheThreads == [p \in Protocols |->
                    IF p = "ca" THEN {"driver", "monitor"} ELSE {"handler", "run"}]

\* The variable a thread writes: the served input x for a client write, the
\* externally hosted output y for a monitor callback.
WrittenBy == [t \in {"driver", "monitor", "handler"} |->
                 IF t = "monitor" THEN "y" ELSE "x"]

\* The message key of each adapter.
KeyOf == [p \in Protocols |-> IF p = "ca" THEN "pvs" ELSE "vars"]

IsLive(m) == "live" \in DOMAIN m /\ m.live

\* The messages of the buffer that refer to the dict: they change with it.
Aliased(queue, p, changes, ids) ==
    [i \in 1..Len(queue) |->
        IF IsLive(queue[i]) /\ queue[i].protocol = p
        THEN [queue[i] EXCEPT !.changes = changes, !.ids = ids]
        ELSE queue[i]]

\* First statement of CAServer.update_pv, CAServer._monitor_callback and
\* PVAServer.update_pv (after CADriver.write or PVAccessInputHandler.put
\* accepted the write and set the PV): the dict is updated.  CAServer stores
\* the value, PVAServer the variable object, the one already cached if any.
update_pv_cache(p, t, value) ==
    LET name == WrittenBy[t]
        stored == IF p = "ca" THEN value
                  ELSE IF name \in DOMAIN cached_values[p]
                       THEN cached_values[p][name]
                       ELSE p_input_variables[p][name]
        changes == MapPut(cached_values[p], name, stored)
        id == pWrites + 1
    IN
    /\ pPc[p] = "run"
    /\ t \in CacheThreads[p] \ {"run"}
    /\ updPc[p][t] = "idle"
    /\ pWrites < MaxWrites
    /\ pWrites' = id
    /\ pLastWrite' = [protocol |-> p, pvname |-> name, value |-> value,
                       ret |-> "True"]
    /\ p_served' = IF t = "monitor" THEN p_served
                   ELSE [p_served EXCEPT ![p][name] = value]
    /\ cached_values' = [cached_values EXCEPT ![p] = changes]
    /\ wq' = [wq EXCEPT !.ids[p] = @ \cup {id}]
    /\ in_queue' = Aliased(in_queue, p, changes, wq.ids[p] \cup {id})
    /\ p_pending' = [p_pending EXCEPT ![p] = @ \cup {id}]
    /\ updPc' = [updPc EXCEPT ![p][t] = "test"]
    /\ UNCHANGED <<tvars, img>>
    /\ UNCHANGED <<out_queue, running_indicator, p_input_variables, pPc,
                   coordPc, coordMsg, auth, p_exit_event, p_read, p_serve,
                   p_ext_put, p_shutdown_event, p_resources>>

\* "if not self._running_indicator.value:"
update_pv_test(p, t) ==
    /\ t \in CacheThreads[p] \ {"run"}
    /\ updPc[p][t] = "test"
    /\ updPc' = [updPc EXCEPT ![p][t] = IF ~running_indicator THEN "put" ELSE "idle"]
    /\ UNCHANGED <<tvars, avars>>
    /\ UNCHANGED <<in_queue, out_queue, running_indicator, cached_values,
                   p_input_variables, p_served, pPc, pWrites, pLastWrite,
                   coordPc, coordMsg, auth, p_exit_event, p_read, p_serve,
                   p_ext_put, p_shutdown_event, p_pending, p_resources>>

\* "self._in_queue.put({"protocol": ..., "pvs": self._cached_values})": the
\* message refers to the dict.
update_pv_queue_put(p, t) ==
    /\ t \in CacheThreads[p] \ {"run"}
    /\ updPc[p][t] = "put"
    /\ Len(in_queue) < MaxPQueue
    /\ in_queue' = Append(in_queue,
           [protocol |-> p, key |-> KeyOf[p], changes |-> cached_values[p],
            live |-> TRUE, ids |-> wq.ids[p]])
    /\ updPc' = [updPc EXCEPT ![p][t] = "reset"]
    /\ UNCHANGED <<tvars, avars>>
    /\ UNCHANGED <<out_queue, running_indicator, cached_values,
                   p_input_variables, p_served, pPc, pWrites, pLastWrite,
                   coordPc, coordMsg, auth, p_exit_event, p_read, p_serve,
                   p_ext_put, p_shutdown_event, p_pending, p_resources>>

\* The messages of p that are live.
LiveOf(p) == {i \in 1..Len(in_queue) : IsLive(in_queue[i]) /\ in_queue[i].protocol = p}

\* "self._cached_values = {}": a new dict; the messages that refer to the
\* old one go out with what it holds.
update_pv_reset(p, t) ==
    /\ t \in CacheThreads[p] \ {"run"}
    /\ updPc[p][t] = "reset"
    /\ cached_values' = [cached_values EXCEPT ![p] = EmptyMap]
    /\ in_queue' = [i \in 1..Len(in_queue) |->
                       IF i \in LiveOf(p) THEN [in_queue[i] EXCEPT !.live = FALSE]
                       ELSE in_queue[i]]
    /\ wq' = [wq EXCEPT
                !.ids[p] = {},
                !.dup = \/ @
                        \/ /\ LiveOf(p) # {}
                           /\ ~(wq.ids[p] \subseteq p_pending[p])
                        \/ /\ Cardinality(LiveOf(p)) >= 2
                           /\ wq.ids[p] # {}]
    /\ p_pending' = [p_pending EXCEPT
                        ![p] = IF LiveOf(p) # {} THEN @ \ wq.ids[p] ELSE @]
    /\ updPc' = [updPc EXCEPT ![p][t] = "idle"]
    /\ UNCHANGED <<tvars, img>>
    /\ UNCHANGED <<out_queue, running_indicator, p_input_variables, p_served,
                   pPc, pWrites, pLastWrite, coordPc, coordMsg, auth,
                   p_exit_event, p_read, p_serve, p_ext_put,
                   p_shutdown_event, p_resources>>

\* The feeder thread of the inbound queue pickles the next message of its
\* buffer.
in_queue_feeder ==
    /\ \E i \in 1..Len(in_queue) : IsLive(in_queue[i])
    /\ LET i == CHOOSE j \in 1..Len(in_queue) :
                   /\ IsLive(in_queue[j])
                   /\ \A k \in 1..(j - 1) : ~IsLive(in_queue[k])
           p == in_queue[i].protocol
       IN /\ in_queue' = [in_queue EXCEPT ![i].live = FALSE]
          /\ wq' = [wq EXCEPT
                      !.dup = @ \/ ~(in_queue[i].ids \subseteq p_pending[p])]
          /\ p_pending' = [p_pending EXCEPT ![p] = @ \ in_queue[i].ids]
    /\ UNCHANGED <<tvars, img>>
    /\ UNCHANGED <<out_queue, running_indicator, cached_values,
                   p_input_variables, p_served, pPc, pWrites, pLastWrite,
                   coordPc, coordMsg, auth, updPc, p_exit_event, p_read,
                   p_serve, p_ext_put, p_shutdown_event, p_resources>>

\* PVAServer.run, one turn of the loop with an event in the out queue, up to
\* the test "len(self._cached_values) > 0 and not
\* self._running_indicator.value".
PVAServer_run_take ==
    /\ pPc["pva"] = "run"
    /\ updPc["pva"]["run"] = "idle"
    /\ ~p_shutdown_event["pva"]
    /\ out_queue["pva"] # <<>>
    /\ out_queue' = [out_queue EXCEPT !["pva"] = Tail(out_queue["pva"])]
    /\ \E put_ok \in BOOLEAN :
       LET after == PVAServer_update_pvs(Head(out_queue["pva"]).changes, 1,
                        [bound |-> FALSE, value |-> None],
                        [served |-> p_served["pva"], crashed |-> FALSE,
                         ext_put |-> p_ext_put["pva"], exit |-> FALSE],
                        put_ok)
       IN /\ p_served' = [p_served EXCEPT !["pva"] = after.served]
          /\ p_ext_put' = [p_ext_put EXCEPT !["pva"] = after.ext_put]
          /\ p_exit_event' = [p_exit_event EXCEPT !["pva"] = @ \/ after.exit]
          /\ p_shutdown_event' = [p_shutdown_event EXCEPT
                                     !["pva"] = @ \/ after.exit]
          /\ IF after.crashed
             THEN /\ pPc' = [pPc EXCEPT !["pva"] = "crashed"]
                  /\ UNCHANGED updPc
             ELSE /\ UNCHANGED pPc
                  /\ updPc' = [updPc EXCEPT !["pva"]["run"] =
                        IF cached_values["pva"] # EmptyMap /\ ~running_indicator
                        THEN "flush" ELSE "idle"]
    /\ UNCHANGED <<tvars, avars>>
    /\ UNCHANGED <<in_queue, running_indicator, cached_values,
                   p_input_variables, pWrites, pLastWrite, coordPc, coordMsg,
                   auth, p_read, p_serve, p_pending, p_resources>>

\* PVAServer.run, the flush: "self._in_queue.put({"protocol": self.protocol,
\* "vars": self._cached_values})"; the dict stays.
PVAServer_run_flush ==
    /\ updPc["pva"]["run"] = "flush"
    /\ Len(in_queue) < MaxPQueue
    /\ in_queue' = Append(in_queue,
           [protocol |-> "pva", key |-> "vars", changes |-> cached_values["pva"],
            live |-> TRUE, ids |-> wq.ids["pva"]])
    /\ updPc' = [updPc EXCEPT !["pva"]["run"] = "idle"]
    /\ UNCHANGED <<tvars, avars>>
    /\ UNCHANGED <<out_queue, running_indicator, cached_values,
                   p_input_variables, p_served, pPc, pWrites, pLastWrite,
                   coordPc, coordMsg, auth, p_exit_event, p_read, p_serve,
                   p_ext_put, p_shutdown_event, p_pending, p_resources>>

\* The coordinator receives a message once the feeder has pickled it; the
\* changes may name the output a Channel Access monitor reported.
Coordinator_get_pickled ==
    /\ coordPc = "idle"
    /\ in_queue # <<>>
    /\ ~IsLive(Head(in_queue))
    /\ coordMsg' = Head(in_queue)
    /\ in_queue' = Tail(in_queue)
    /\ running_indicator' = TRUE
    /\ auth' = [n \in Names |->
                  IF /\ n \in DOMAIN Head(in_queue).changes
                     /\ (auth[n] = None \/ n \notin Constants)
                  THEN Head(in_queue).changes[n]
                  ELSE auth[n]]
    /\ coordPc' = "publish"
    /\ UNCHANGED <<tvars, avars>>
    /\ UNCHANGED <<p_exit_event, p_read>>
    /\ UNCHANGED <<p_serve, p_ext_put, p_shutdown_event, p_pending, p_resources>>
    /\ UNCHANGED <<out_queue, cached_values, p_input_variables, p_served,
                   pPc, pWrites, pLastWrite, updPc>>

NextR ==
    \/ CAServer_setup_server(NoRead)
    \/ CAServer_setup_outputs
    \/ CAServer_run
    \/ PVAServer_setup_server(NoRead)
    \/ PVAServer_setup_outputs
    \/ PVAServer_run_take
    \/ PVAServer_run_flush
    \/ \E p \in Protocols, t \in {"driver", "monitor", "handler"}, value \in WriteValues :
          update_pv_cache(p, t, value)
    \/ \E p \in Protocols, t \in {"driver", "monitor", "handler"} : update_pv_test(p, t)
    \/ \E p \in Protocols, t \in {"driver", "monitor", "handler"} : update_pv_queue_put(p, t)
    \/ \E p \in Protocols, t \in {"driver", "monitor", "handler"} : update_pv_reset(p, t)
    \/ in_queue_feeder
    \/ Coordinator_get_pickled
    \/ Coordinator_publish

\* The adapters before run(), the output y hosted externally (Channel
\* Access monitors it), no write accepted yet.
InitR ==
    /\ TNotConstructed
    /\ img = NoImage
    /\ wq = [ids |-> [p \in Protocols |-> {}], dup |-> FALSE]
    /\ in_queue = <<>>
    /\ out_queue = [p \in Protocols |-> <<>>]
    /\ running_indicator = FALSE
    /\ cached_values = [p \in Protocols |-> EmptyMap]
    /\ p_input_variables = [p \in Protocols |-> [v \in Inputs |-> None]]
    /\ p_served = [p \in Protocols |-> [n \in Names |-> None]]
    /\ pPc = [p \in Protocols |-> "init"]
    /\ pWrites = 0
    /\ pLastWrite = NoPWrite
    /\ coordPc = "idle"
    /\ coordMsg = NoMsg
    /\ auth = [n \in Names |-> None]
    /\ updPc = [p \in Protocols |-> [t \in CacheThreads[p] |-> "idle"]]
    /\ p_exit_event = [p \in Protocols |-> FALSE]
    /\ p_read = [p \in Protocols |-> NoRead]
    /\ p_serve = [n \in Names |-> n # "y"]
    /\ p_ext_put = [p \in Protocols |-> {}]
    /\ p_shutdown_event = [p \in Protocols |-> FALSE]
    /\ p_pending = [p \in Protocols |-> {}]
    /\ p_resources = [p \in Protocols |-> {}]

SpecR == InitR /\ [][NextR]_vars

\* ---------------------------------------------------------------- C35
\* A message has gone out with an empty change set.
EmptyMessageSent ==
    \E i \in 1..Len(in_queue) :
        /\ "live" \in DOMAIN in_queue[i]
        /\ ~in_queue[i].live
        /\ in_queue[i].changes = EmptyMap

\* An accepted write of adapter p has not gone out and is in the cache no
\* more.
WriteLost(p) == p_pending[p] \ wq.ids[p] # {}

\* C35: the adapter write cache is race-free.  Under every interleaving of
\* the threads that touch one adapter's _cached_values, no inbound message
\* with an empty change set is enqueued, and no accepted write is lost or
\* sent in two messages.
C35_CacheRaceFree ==
    /\ ~EmptyMessageSent
    /\ \A p \in Protocols : ~WriteLost(p)
    /\ ~wq.dup

\* The three parts of C35 for the Channel Access adapter alone.
C35_CaNoEmptyMessage ==
    \A i \in 1..Len(in_queue) :
        (in_queue[i].protocol = "ca" /\ "live" \in DOMAIN in_queue[i] /\ ~in_queue[i].live)
            => in_queue[i].changes # EmptyMap

C35_CaNoLostWrite == ~WriteLost("ca")

C35_NoEmptyMessage == ~EmptyMessageSent

C35_NoDuplicate == ~wq.dup

\* ---------------------------------------------------------------- C36
\* The call of add_to_comm_queue by caller c returns in this step.
Returns(c) == wq.pc[c] = "put" /\ wq'.pc[c] = "idle"

\* C36: overflow drops only older updates.  With the Channel Access thread
\* and the pvAccess handler both calling add_to_comm_queue and the
\* coordinator consuming, the update passed to a call is never the one
\* discarded: when the call returns the update is the newest item of
\* comm_queue, and the queue never holds more than its maximum size.
C36_OverflowDropsOlder ==
    /\ [][\A c \in Callers :
             Returns(c) =>
                 /\ Len(comm_queue') = Len(comm_queue) + 1
                 /\ comm_queue'[Len(comm_queue')].protocol = c]_vars
    /\ [](Len(comm_queue) <= CommQueueMax)

\* The part of C36 that the code keeps: the size of the queue.
C36_QueueBounded == Len(comm_queue) <= CommQueueMax

\* ======================================================================
\* PVAccessInputHandler.put of epics_pva_server.py, statement by statement
\* ======================================================================
\* updPc["pva"] is the handler's position: "put" inside update_pv before
\* the cache is sent, "done" before op.done(); pLastWrite.done counts the
\* op.done() calls of the put operation.

\* Mutant of PVAccessInputHandler_put_call: a put the handler does not
\* forward returns without op.done().
PVAccessInputHandler_put_call_NoAck(pvname, value) ==
    /\ pPc["pva"] = "run"
    /\ updPc["pva"] = "idle"
    /\ pWrites < MaxWrites
    /\ pWrites' = pWrites + 1
    /\ pLastWrite' = [protocol |-> "pva", pvname |-> pvname, value |-> value,
                       ret |-> "none", done |-> 0]
    /\ IF ~is_constant[pvname] /\ value # None
       THEN /\ p_served' = [p_served EXCEPT !["pva"][pvname] = value]
            /\ cached_values' = [cached_values EXCEPT !["pva"] =
                   MapPut(@, pvname,
                          IF pvname \in DOMAIN cached_values["pva"]
                          THEN cached_values["pva"][pvname]
                          ELSE p_input_variables["pva"][pvname])]
            /\ p_pending' = [p_pending EXCEPT !["pva"] = @ \cup {pvname}]
            /\ updPc' = [updPc EXCEPT !["pva"] =
                            IF ~running_indicator THEN "put" ELSE "done"]
       ELSE /\ UNCHANGED <<p_served, cached_values, p_pending, updPc>>
    /\ UNCHANGED <<tvars, avars>>
    /\ UNCHANGED <<p_exit_event, p_read>>
    /\ UNCHANGED <<p_serve, p_ext_put, p_shutdown_event, p_resources>>
    /\ UNCHANGED <<in_queue, out_queue, running_indicator, p_input_variables,
                   pPc, coordPc, coordMsg, auth>>

\* PVAccessInputHandler.put, up to the flag test of update_pv: the test
\* "not self.is_constant and op.value() is not None", pv.post, and in
\* update_pv the variable cached (the one already cached wins) and the
\* running indicator read.  A put that fails the test goes to op.done().
PVAccessInputHandler_put_call(pvname, value) ==
    /\ pPc["pva"] = "run"
    /\ updPc["pva"] = "idle"
    /\ pWrites < MaxWrites
    /\ pWrites' = pWrites + 1
    /\ pLastWrite' = [protocol |-> "pva", pvname |-> pvname, value |-> value,
                       ret |-> "none", done |-> 0]
    /\ IF ~is_constant[pvname] /\ value # None
       THEN /\ p_served' = [p_served EXCEPT !["pva"][pvname] = value]
            /\ cached_values' = [cached_values EXCEPT !["pva"] =
                   MapPut(@, pvname,
                          IF pvname \in DOMAIN cached_values["pva"]
                          THEN cached_values["pva"][pvname]
                          ELSE p_input_variables["pva"][pvname])]
            /\ p_pending' = [p_pending EXCEPT !["pva"] = @ \cup {pvname}]
            /\ updPc' = [updPc EXCEPT !["pva"] =
                            IF ~running_indicator THEN "put" ELSE "done"]
       ELSE /\ updPc' = [updPc EXCEPT !["pva"] = "done"]
            /\ UNCHANGED <<p_served, cached_values, p_pending>>
    /\ UNCHANGED <<tvars, avars>>
    /\ UNCHANGED <<p_exit_event, p_read>>
    /\ UNCHANGED <<p_serve, p_ext_put, p_shutdown_event, p_resources>>
    /\ UNCHANGED <<in_queue, out_queue, running_indicator, p_input_variables,
                   pPc, coordPc, coordMsg, auth>>

\* The rest of update_pv when the indicator read was false: the cache is put
\* on the in queue (an unbounded multiprocessing queue) and emptied.
PVAccessInputHandler_put_forward ==
    /\ updPc["pva"] = "put"
    /\ in_queue' = Append(in_queue,
           [protocol |-> "pva", key |-> "vars", changes |-> cached_values["pva"]])
    /\ cached_values' = [cached_values EXCEPT !["pva"] = EmptyMap]
    /\ p_pending' = [p_pending EXCEPT !["pva"] = {}]
    /\ updPc' = [updPc EXCEPT !["pva"] = "done"]
    /\ UNCHANGED <<tvars, avars>>
    /\ UNCHANGED <<p_exit_event, p_read>>
    /\ UNCHANGED <<p_serve, p_ext_put, p_shutdown_event, p_resources>>
    /\ UNCHANGED <<out_queue, running_indicator, p_input_variables, p_served,
                   pPc, pWrites, pLastWrite, coordPc, coordMsg, auth>>

\* "op.done()", the last statement of put.
PVAccessInputHandler_put_done ==
    /\ updPc["pva"] = "done"
    /\ pLastWrite' = [pLastWrite EXCEPT !.done = @ + 1]
    /\ updPc' = [updPc EXCEPT !["pva"] = "idle"]
    /\ UNCHANGED <<tvars, avars>>
    /\ UNCHANGED <<p_exit_event, p_read>>
    /\ UNCHANGED <<p_serve, p_ext_put, p_shutdown_event, p_pending, p_resources>>
    /\ UNCHANGED <<in_queue, out_queue, running_indicator, cached_values,
                   p_input_variables, p_served, pPc, pWrites, coordPc,
                   coordMsg, auth>>

\* The steps of the handler once a put has come in.
PVAccessInputHandler_put_steps ==
    \/ PVAccessInputHandler_put_forward
    \/ PVAccessInputHandler_put_done

\* The pvAccess adapter, its clients and the coordinator.
NextH ==
    \/ PVAServer_setup_server(NoRead)
    \/ PVAServer_setup_outputs
    \/ PVAServer_run
    \/ \E pvname \in Inputs, value \in PWriteValues :
          PVAccessInputHandler_put_call(pvname, value)
    \/ PVAccessInputHandler_put_forward
    \/ PVAccessInputHandler_put_done
    \/ Coordinator_get
    \/ Coordinator_publish

\* The handler runs on the server's worker thread and runs on once called;
\* nothing is assumed of the clients, the run loop or the coordinator.
SpecH == InitP /\ [][NextH]_vars /\ WF_vars(PVAccessInputHandler_put_steps)

\* ---------------------------------------------------------------- C37
\* C37: every pvAccess put is acknowledged.  Each put operation handled by
\* PVAccessInputHandler.put is completed with op.done() exactly once,
\* whether the write is accepted and forwarded, targets a constant variable,
\* or carries no value: the handler always comes to its end, op.done() has
\* been called once by then and is never called twice.
C37_PutAcknowledgedOnce ==
    /\ [](pLastWrite.protocol = "pva" =>
              /\ pLastWrite.done <= 1
              /\ (updPc["pva"] = "idle" <=> pLastWrite.done = 1))
    /\ (updPc["pva"] # "idle") ~> (updPc["pva"] = "idle")

\* A put accepted and forwarded has been acknowledged, and so have a put to
\* the constant and a put without a value before it.
C37_Witness ==
    /\ pLastWrite.protocol = "pva"
    /\ pLastWrite.pvname = "x"
    /\ pLastWrite.value # None
    /\ pLastWrite.done = 1
    /\ updPc["pva"] = "idle"
    /\ \E i \in 1..Len(in_queue) :
          /\ in_queue[i].protocol = "pva"
          /\ DOMAIN in_queue[i].changes = {"x"}

\* A put to the constant has been acknowledged.
C37_WitnessConstant ==
    /\ pLastWrite.protocol = "pva"
    /\ pLastWrite.pvname = "k"
    /\ pLastWrite.value # None
    /\ pLastWrite.done = 1

\* A put without a value has been acknowledged.
C37_WitnessNoValue ==
    /\ pLastWrite.protocol = "pva"
    /\ pLastWrite.value = None
    /\ pLastWrite.done = 1

\* ======================================================================
\* The image child PVs of the Channel Access adapter
\* ======================================================================
\* img holds the pvdb entries of the image "im" that build_pvdb makes and the
\* driver's parameters after them: img.served[child] is the value of the PV
\* "im:" \o child, and img.nan the children whose value is numpy.nan.

\* Largest number of rows and of columns of an image.
MaxDim == 2

\* The values of a pixel.
Pixels == {0, 1}

\* An image variable declared without a value: variable.value is None.
NoValue == <<>>

\* The two-dimensional arrays an image variable holds: a sequence of rows.
ImageArrays ==
    UNION {[1..r -> [1..c -> Pixels]] : r \in 1..MaxDim, c \in 1..MaxDim}

\* value.shape[0], value.shape[1]
Shape0(value) == Len(value)
Shape1(value) == Len(value[1])

\* value.flatten(): the rows one after the other.
RECURSIVE flatten(_)
flatten(value) ==
    IF value = <<>> THEN <<>> ELSE Head(value) \o flatten(Tail(value))

\* The children of an image PV that build_pvdb declares.
ImageChildren ==
    {"NDimensions_RBV", "Dimensions_RBV", "ArraySizeX_RBV", "ArraySizeY_RBV",
     "ArraySize_RBV", "ArrayData_RBV", "MinX_RBV", "MinY_RBV", "MaxX_RBV",
     "MaxY_RBV", "ColorMode_RBV"}

\* An image variable: its value (None when the model declares none) and its
\* limits.
ImageVariablesOf(values) ==
    {[value |-> v, x_min |-> 0, y_min |-> 0, x_max |-> xm, y_max |-> 1] :
        v \in values, xm \in {1, 2}}

\* build_pvdb of epics_ca_server.py for an image variable: the children
\* that are numpy.nan, those of the array when the value is None.
build_pvdb_nan(variable) ==
    IF variable.value = NoValue
    THEN {"NDimensions_RBV", "Dimensions_RBV", "ArraySizeX_RBV",
          "ArraySizeY_RBV", "ArraySize_RBV", "ArrayData_RBV", "ColorMode_RBV"}
    ELSE {}

\* build_pvdb of epics_ca_server.py for an image variable: the values of
\* the child PVs (of no meaning for a child that is numpy.nan).
build_pvdb(variable) ==
    LET value == variable.value
    IN [child \in ImageChildren |->
          CASE child = "NDimensions_RBV" -> 2
            [] child = "Dimensions_RBV" ->
                 IF value = NoValue THEN <<>> ELSE <<Shape0(value), Shape1(value)>>
            [] child = "ArraySizeX_RBV" ->
                 IF value = NoValue THEN 0 ELSE Shape0(value)
            [] child = "ArraySizeY_RBV" ->
                 IF value = NoValue THEN 0 ELSE Shape1(value)
            [] child = "ArraySize_RBV" ->
                 IF value = NoValue THEN 0 ELSE Shape0(value) * Shape1(value)
            [] child = "ArrayData_RBV" -> flatten(value)
            [] child = "MinX_RBV" -> variable.x_min
            [] child = "MinY_RBV" -> variable.y_min
            [] child = "MaxX_RBV" -> variable.x_max
            [] child = "MaxY_RBV" -> variable.y_max
            [] child = "ColorMode_RBV" -> 0]

\* CAServer.setup_server: the pvdb is built from the variables as declared
\* and the driver's parameters start from it.
CAServer_build_pvdb(variable) ==
    /\ img.pc = "new"
    /\ img' = [pc |-> "served", served |-> build_pvdb(variable),
               nan |-> build_pvdb_nan(variable), published |-> FALSE]
    /\ UNCHANGED <<tvars, pvars, wq>>

\* CADriver.update_pvs of epics_ca_server.py for the image variable: a
\* constant input is logged and skipped; otherwise setParam on the data and
\* on the four limits, then updatePVs.
CADriver_update_pvs_image(variable, constant) ==
    /\ img.pc = "served"
    /\ IF constant
       THEN UNCHANGED img
       ELSE img' = [img EXCEPT
                !.served["ArrayData_RBV"] = flatten(variable.value),
                !.served["MinX_RBV"] = variable.x_min,
                !.served["MinY_RBV"] = variable.y_min,
                !.served["MaxX_RBV"] = variable.x_max,
                !.served["MaxY_RBV"] = variable.y_max,
                !.nan = @ \ {"ArrayData_RBV"},
                !.published = TRUE]
    /\ UNCHANGED <<tvars, pvars, wq>>

\* The image is declared, with a value or without, and then published any
\* number of times with the images the model returns.
NextImg ==
    \/ \E variable \in ImageVariablesOf(ImageArrays \cup {NoValue}) :
          CAServer_build_pvdb(variable)
    \/ \E variable \in ImageVariablesOf(ImageArrays), constant \in BOOLEAN :
          CADriver_update_pvs_image(variable, constant)

InitImg ==
    /\ TNotConstructed
    /\ PNotConstructed
    /\ WqInit
    /\ img = [pc |-> "new"]

SpecImg == InitImg /\ [][NextImg]_vars

\* ArraySizeX_RBV times ArraySizeY_RBV equals ArraySize_RBV and the number
\* of elements of ArrayData_RBV; numpy.nan equals nothing.
SizesConsistent(params, nan) ==
    /\ nan \cap {"ArraySizeX_RBV", "ArraySizeY_RBV", "ArraySize_RBV",
                 "ArrayData_RBV"} = {}
    /\ params["ArraySizeX_RBV"] * params["ArraySizeY_RBV"]
          = params["ArraySize_RBV"]
    /\ params["ArraySize_RBV"] = Len(params["ArrayData_RBV"])

\* ---------------------------------------------------------------- C38
\* C38: image sub-fields stay mutually consistent over Channel Access.  After
\* the CA adapter publishes any image variable, including one whose shape
\* differs from the shape served at startup, ArraySizeX_RBV times
\* ArraySizeY_RBV equals ArraySize_RBV and equals the number of elements of
\* ArrayData_RBV.
C38_ImageSizesConsistent ==
    (img.pc = "served" /\ img.published) => SizesConsistent(img.served, img.nan)

\* C38 for an image declared with a value: no child PV is numpy.nan.
C38_DeclaredImageSizesConsistent ==
    (img.pc = "served" /\ img.published /\ img.nan = {}) =>
        SizesConsistent(img.served, img.nan)

\* What the code keeps: the size PVs are those of the declaration, whatever
\* is published.
C38_SizesNeverPublished ==
    [][img.pc = "served" =>
          \A child \in {"ArraySizeX_RBV", "ArraySizeY_RBV", "ArraySize_RBV",
                        "NDimensions_RBV", "Dimensions_RBV", "ColorMode_RBV"} :
             /\ img'.served[child] = img.served[child]
             /\ (child \in img'.nan) = (child \in img.nan)]_vars

====
